---- MODULE Spec2Model ----
(***************************************************************************)
(* SnapScore: peer session and state synchronisation.                      *)
(*                                                                         *)
(* The model is a network of devices.  Every device runs the P2PService    *)
(* singleton (src/services/p2pService.ts), the useMultiplayer hook         *)
(* (src/hooks/useMultiplayer.ts), the game state of useGameState           *)
(* (src/hooks/useGameState.ts) and the message router and user actions of  *)
(* App (src/App.tsx).  The transport (PeerJS) is the environment: it opens *)
(* and closes the two ends of a data connection and delivers frames in     *)
(* order per connection.                                                   *)
(***************************************************************************)
EXTENDS Integers, Sequences, FiniteSets, TLC

\* ------------------------------------------------------------------ bounds
MaxConns == 3       \* slots of the transport's table of data connections
MaxLive == 2        \* data connections alive at one time in the two-device scenarios
MaxQueue == 2       \* frames in flight in one direction of one connection
MaxOps == 2         \* user mutations of the snapshot in one behaviour
MaxEpoch == 1       \* endpoint identities a device may go through: 0..MaxEpoch
MaxPlayers == 2     \* players a snapshot may hold
MaxOpening == 2     \* endpoints of one device that init() has created and that are not open yet

\* ------------------------------------------------------- program constants
MAX_RETRIES == 5

\* ------------------------------------------------------------------- data
Devices == {"A", "B", "C"}
NoId == <<>>
Identities == Devices \X (0..MaxEpoch)
NoDevice == "none"
GhostId == <<"X", 0>>   \* an identity no endpoint has

\* what initP2p read at mount when nothing was persisted and the page has no join link
NoBoot == [device |-> NoId, host |-> NoId, join |-> NoId]

DEFAULT_SETTINGS == "default"
SettingsValues == {"default", "custom"}
AppView == {"SETUP", "GAME", "SETTINGS", "SCAN"}

PlayerIds == {"p1", "p2"}
RoundIds == {"r1", "r2"}
Scores == {10, 20}

VARIABLES
    peer,             \* P2PService.peer: the endpoint identity, NoId when null
    opening,          \* P2PService.init: the endpoints created and not open yet, with what awaits them
    orphans,          \* the endpoints init() opened that P2PService.peer names no more
    connections,      \* P2PService.connections: the registry, a sequence of connection ids
    conns,            \* the transport's data connections, both ends of each
    peerId,           \* useMultiplayer: peerId state, NoId when it is ''
    connectedPeers,   \* useMultiplayer: connectedPeers state
    isClient,         \* useMultiplayer: isClient state
    isJoining,        \* useMultiplayer: isJoining state
    retryCount,       \* useMultiplayer: retryCount state
    hostEndedSession, \* useMultiplayer: hostEndedSession state
    joinCancelled,    \* useMultiplayer: joinCancelledRef.current
    storedHost,       \* localStorage snapscore_host_id, NoId when absent
    storedDevice,     \* localStorage snapscore_device_id, NoId when absent
    players,          \* useGameState / App: players state
    settings,         \* useGameState / App: settings state
    view,             \* useGameState / App: view state
    epoch,            \* the number of times the device has destroyed its endpoint
    started,          \* useMultiplayer: the "Init P2P" effect has run to its end
    boot,             \* initP2p: storedDeviceId, storedHostId and joinId as read at mount
    endTimer,         \* handleHostEndSession: its setTimeout is pending
    heartbeatInterval, \* P2PService: the interval of startHeartbeat is set
    mounted,          \* useMultiplayer: the hook is mounted (its effects have not been cleaned up)
    destroyed,        \* history: destroy() has been called on the service of this page
    storedPlayers,    \* localStorage snapscore_players
    storedSettings,   \* localStorage snapscore_settings
    leftHost,         \* history: the host the user left last, until the user joins again
    endedBy,          \* history: the host whose GAME_ENDED arrived last, until the user joins again
    lastOp,           \* history: the handler that ran last, on which device, with what
    nOps              \* history: user mutations so far

vars == <<peer, opening, orphans, connections, conns, peerId, connectedPeers, isClient, isJoining, retryCount,
          hostEndedSession, joinCancelled, storedHost, storedDevice, players, settings,
          view, epoch, started, boot, endTimer, storedPlayers, storedSettings,
          heartbeatInterval, mounted, destroyed, leftHost, endedBy, lastOp, nOps>>

svcVars == <<peer, opening, orphans, connections, conns, connectedPeers, heartbeatInterval,
             destroyed>>
hookVars == <<peerId, isClient, isJoining, retryCount, hostEndedSession, joinCancelled,
              storedHost, storedDevice, boot, endTimer, leftHost, endedBy>>
gameVars == <<players, settings, view, storedPlayers, storedSettings>>

\* --------------------------------------------------------------- sequences
SeqRange(s) == {s[i] : i \in 1..Len(s)}

\* Array.prototype.findIndex, 1-based; 0 when there is none
FindIndex(s, test(_)) ==
    LET hits == {i \in 1..Len(s) : test(s[i])}
    IN IF hits = {} THEN 0 ELSE CHOOSE i \in hits : \A j \in hits : i <= j

\* Array.prototype.splice(i, 1), 1-based
Splice(s, i) == SubSeq(s, 1, i - 1) \o SubSeq(s, i + 1, Len(s))

\* ------------------------------------------------------------- game state
Round(id, score) == [id |-> id, score |-> score]
Rounds == {Round(id, sc) : id \in RoundIds, sc \in Scores}
Player(id) == [id |-> id, name |-> id, rounds |-> <<>>]

\* the round upsert of one player: replace in place when the id exists, append otherwise
UpsertRoundAppendOnly(rounds, round) == Append(rounds, round)

UpsertRoundNoReplace(rounds, round) ==
    LET existingRoundIndex == FindIndex(rounds, LAMBDA r : r.id = round.id)
    IN IF existingRoundIndex > 0 THEN rounds ELSE Append(rounds, round)

UpsertRoundMoveToEnd(rounds, round) ==
    Append(SelectSeq(rounds, LAMBDA r : r.id # round.id), round)

UpsertRound(rounds, round) ==
    LET existingRoundIndex == FindIndex(rounds, LAMBDA r : r.id = round.id)
    IN IF existingRoundIndex > 0
       THEN [rounds EXCEPT ![existingRoundIndex] = round]
       ELSE Append(rounds, round)

\* no player of the list has this id
AbsentPlayer(prev, playerId) == \A i \in 1..Len(prev) : prev[i].id # playerId

UpdatePlayerRoundAddsMissing(prev, playerId, round) ==
    IF AbsentPlayer(prev, playerId)
    THEN Append(prev, [id |-> playerId, name |-> playerId, rounds |-> <<round>>])
    ELSE [i \in 1..Len(prev) |->
            IF prev[i].id = playerId
            THEN [prev[i] EXCEPT !.rounds = UpsertRound(prev[i].rounds, round)]
            ELSE prev[i]]

\* updatePlayerRound, and the host branch of handleSaveRound: prev.map(...)
UpdatePlayerRound(prev, playerId, round) ==
    [i \in 1..Len(prev) |->
        IF prev[i].id = playerId
        THEN [prev[i] EXCEPT !.rounds = UpsertRound(prev[i].rounds, round)]
        ELSE prev[i]]

\* addPlayers, handleStartGame and REQUEST_ADD_PLAYERS: [...prev, ...newPlayers]
AddPlayersReplace(prev, newPlayers) == newPlayers

AddPlayers(prev, newPlayers) == prev \o newPlayers

\* removePlayer / confirmDeletePlayer: prev.filter(p => p.id !== playerId)
RemovePlayer(prev, playerId) == SelectSeq(prev, LAMBDA p : p.id # playerId)

\* resetRounds: players.map(p => ({ ...p, rounds: [] }))
ResetRounds(prev) == [i \in 1..Len(prev) |-> [prev[i] EXCEPT !.rounds = <<>>]]

SyncStateRawView(pl, se, vw) ==
    [type |-> "SYNC_STATE",
     payload |-> [players |-> pl, settings |-> se, view |-> vw]]

\* ---------------------------------------------------------------- frames
SyncState(pl, se, vw) ==
    [type |-> "SYNC_STATE",
     payload |-> [players |-> pl, settings |-> se,
                  view |-> IF vw = "SCAN" THEN "GAME" ELSE vw]]
RequestSaveRound(playerId, round) ==
    [type |-> "REQUEST_SAVE_ROUND", payload |-> [playerId |-> playerId, round |-> round]]
RequestReset == [type |-> "REQUEST_RESET", payload |-> <<>>]
RequestSettingsUpdate(se) == [type |-> "REQUEST_SETTINGS_UPDATE", payload |-> se]
RequestAddPlayers(pl) == [type |-> "REQUEST_ADD_PLAYERS", payload |-> pl]
\* the frame of startHeartbeat; its payload, Date.now(), is read by no receiver
Heartbeat == [type |-> "HEARTBEAT", payload |-> <<>>]

GameEnded == [type |-> "GAME_ENDED", payload |-> <<>>]
NoMsg == [type |-> "none", payload |-> <<>>]

\* ------------------------------------------------------------- transport
\* One data connection: the dialling end (a DataConnection of the dialer, whose
\* .peer is `target`) and the accepting end (a DataConnection of the acceptor,
\* whose .peer is `dialerId`).
\*   dSt: "pending"   handshake listeners attached, not open
\*        "abandoned" handshake listeners removed by cleanup(), not open
\*        "unheard"   opened after cleanup(): open, never set up
\*        "dead"      handshake listeners attached, the endpoint was destroyed
\*        "open"      open and set up
\*        "closed"
\*   aSt: "none" (not open yet), "open", "closed"
\*   req: the request that sendToHostAction sends once the dial has opened
\*   cut: history, the user cancelled the join while this dial was in flight
NewConn(d, dId, target, acc, silent) ==
    [dialer |-> d, dialerId |-> dId, target |-> target, acceptor |-> acc,
     dSt |-> "pending", aSt |-> "none", silent |-> silent, req |-> NoMsg,
     cut |-> FALSE, toA |-> <<>>, toD |-> <<>>]

ConnIds == 1..MaxConns

\* a slot of the table that holds no connection
FreeConn ==
    [dialer |-> NoDevice, dialerId |-> NoId, target |-> NoId, acceptor |-> NoDevice,
     dSt |-> "closed", aSt |-> "closed", silent |-> FALSE, req |-> NoMsg,
     cut |-> FALSE, toA |-> <<>>, toD |-> <<>>]

FreeSlots(tbl) == {c \in ConnIds : tbl[c].dialer = NoDevice}

\* the slot a new connection takes
NextSlot(tbl) == CHOOSE c \in FreeSlots(tbl) : \A x \in FreeSlots(tbl) : c <= x

\* a connection neither end of which can raise another event is forgotten
Forget(tbl, regs) ==
    [c \in ConnIds |->
        IF /\ tbl[c].dSt = "closed"
           /\ tbl[c].aSt \in {"closed", "none"}
           /\ \A d \in Devices : c \notin SeqRange(regs[d])
        THEN FreeConn ELSE tbl[c]]

IsDialer(tbl, d, c) == tbl[c].dialer = d

\* DataConnection.peer at d's end of c
PeerOf(tbl, d, c) == IF IsDialer(tbl, d, c) THEN tbl[c].target ELSE tbl[c].dialerId

\* DataConnection.open at d's end of c
EndOpen(tbl, d, c) ==
    IF IsDialer(tbl, d, c) THEN tbl[c].dSt = "open" ELSE tbl[c].aSt = "open"

\* the far end of c, seen from d, can still take frames to a data listener
FarEndListens(tbl, d, c) ==
    IF IsDialer(tbl, d, c) THEN tbl[c].aSt \in {"none", "open"}
    ELSE tbl[c].dSt \in {"pending", "open"}

\* DataConnection.close() at d's end, and the effect of a 'close' event on the end:
\* the end is closed and the frames still travelling towards it are lost
CloseEnd(tbl, d, c) ==
    IF IsDialer(tbl, d, c)
    THEN [tbl EXCEPT ![c].dSt = "closed", ![c].toD = <<>>]
    ELSE [tbl EXCEPT ![c].aSt = "closed", ![c].toA = <<>>]

\* DataConnection.send(msg) at d's end of c
ConnSend(tbl, d, c, msg) ==
    IF ~FarEndListens(tbl, d, c) THEN tbl
    ELSE IF IsDialer(tbl, d, c)
         THEN [tbl EXCEPT ![c].toA = Append(@, msg)]
         ELSE [tbl EXCEPT ![c].toD = Append(@, msg)]

\* room for one more frame from d on every connection d would send on
RoomToSend(tbl, d, reg) ==
    \A i \in 1..Len(reg) :
        IF IsDialer(tbl, d, reg[i]) THEN Len(tbl[reg[i]].toA) < MaxQueue
        ELSE Len(tbl[reg[i]].toD) < MaxQueue

\* ------------------------------------------------------------ P2PService
\* the endpoints of device d that are open: the one P2PService.peer names and the
\* ones an earlier init() opened, which nothing destroys
Alive(d) == (IF peer[d] = NoId THEN {} ELSE {peer[d]}) \cup orphans[d]

\* init(): createPeer(id), with what runs when the endpoint opens: the caller's
\* setPeerId ("init"), or connect()'s _connectToHost(target, ...) ("connect")
InitCall(id) ==
    [id |-> id, kind |-> "init", target |-> NoId, silent |-> FALSE, req |-> NoMsg,
     cut |-> FALSE]
ConnectCall(id, target, silent) ==
    [id |-> id, kind |-> "connect", target |-> target, silent |-> silent, req |-> NoMsg,
     cut |-> FALSE]

\* init(): peer.on('open') assigns this.peer
SetPeer(n, id) ==
    [n EXCEPT !.peer = id, !.orphans = IF n.peer # NoId THEN @ \cup {n.peer} ELSE @]

\* get connectedPeerIds
ConnectedPeerIds(tbl, d, reg) == {PeerOf(tbl, d, reg[i]) : i \in 1..Len(reg)}

\* broadcast(msg), and sendToHost(msg): every registered connection that is open
RECURSIVE BroadcastFrom(_, _, _, _, _)
BroadcastFrom(tbl, d, reg, msg, i) ==
    IF i > Len(reg) THEN tbl
    ELSE BroadcastFrom(
            IF EndOpen(tbl, d, reg[i]) THEN ConnSend(tbl, d, reg[i], msg) ELSE tbl,
            d, reg, msg, i + 1)

Broadcast(tbl, d, reg, msg) == BroadcastFrom(tbl, d, reg, msg, 1)

\* setupConnection(conn) at device d: [reg, tbl, notified]
SetupConnectionKeepStale(tbl, d, reg, c) ==
    IF c \in SeqRange(reg) THEN [reg |-> reg, tbl |-> tbl, notified |-> FALSE]
    ELSE [reg |-> Append(reg, c), tbl |-> tbl, notified |-> TRUE]

SetupConnectionStaleOpen(tbl, d, reg, c) ==
    IF c \in SeqRange(reg) THEN [reg |-> reg, tbl |-> tbl, notified |-> FALSE]
    ELSE LET existingIndex ==
                 IF PeerOf(tbl, d, c) = NoId THEN 0
                 ELSE FindIndex(reg, LAMBDA x : PeerOf(tbl, d, x) = PeerOf(tbl, d, c))
             reg1 == IF existingIndex > 0 THEN Splice(reg, existingIndex) ELSE reg
         IN [reg |-> Append(reg1, c), tbl |-> tbl, notified |-> TRUE]

SetupConnection(tbl, d, reg, c) ==
    IF c \in SeqRange(reg) THEN [reg |-> reg, tbl |-> tbl, notified |-> FALSE]
    ELSE LET existingIndex ==
                 IF PeerOf(tbl, d, c) = NoId THEN 0
                 ELSE FindIndex(reg, LAMBDA x : PeerOf(tbl, d, x) = PeerOf(tbl, d, c))
             staleConn == reg[existingIndex]
             tbl1 == IF existingIndex > 0 THEN CloseEnd(tbl, d, staleConn) ELSE tbl
             reg1 == IF existingIndex > 0 THEN Splice(reg, existingIndex) ELSE reg
         IN [reg |-> Append(reg1, c), tbl |-> tbl1, notified |-> TRUE]

\* did setupConnection take a stale connection of the same peer out of the registry
Replaced(reg, r) == r.notified /\ Len(r.reg) = Len(reg)

\* the 'close' listener of setupConnection
OnConnClose(tbl, d, reg, c) ==
    IF c \in SeqRange(reg)
    THEN [reg |-> SelectSeq(reg, LAMBDA x : x # c), notified |-> TRUE]
    ELSE [reg |-> reg, notified |-> FALSE]

\* destroy(): every registered connection is closed (its 'close' listener runs),
\* the endpoint this.peer is destroyed with the connections it still holds
RECURSIVE CloseAllOf(_, _, _, _, _)
CloseAllOf(tbl, d, reg, id, i) ==
    IF i > MaxConns THEN tbl
    ELSE LET mine == \/ i \in SeqRange(reg)
                     \/ tbl[i].dialer = d /\ tbl[i].dialerId = id
                     \/ tbl[i].acceptor = d /\ tbl[i].target = id
         IN CloseAllOf(
            IF ~mine THEN tbl
            ELSE IF tbl[i].dialer = d /\ tbl[i].dSt \in {"open", "abandoned", "unheard"}
                THEN CloseEnd(tbl, d, i)
            ELSE IF tbl[i].dialer = d /\ tbl[i].dSt = "pending"
                THEN [tbl EXCEPT ![i].dSt = "dead"]
            ELSE IF tbl[i].acceptor = d /\ tbl[i].dialer # d /\ tbl[i].aSt \in {"none", "open"}
                THEN CloseEnd(tbl, d, i)
            ELSE tbl,
            d, reg, id, i + 1)

\* ------------------------------------------------------- one device's state
Cur(d) ==
    [peer |-> peer[d], opening |-> opening[d], orphans |-> orphans[d],
     connections |-> connections[d], peerId |-> peerId[d],
     connectedPeers |-> connectedPeers[d],
     isClient |-> isClient[d], isJoining |-> isJoining[d], retryCount |-> retryCount[d],
     hostEndedSession |-> hostEndedSession[d], joinCancelled |-> joinCancelled[d],
     storedHost |-> storedHost[d], storedDevice |-> storedDevice[d],
     players |-> players[d], settings |-> settings[d], view |-> view[d],
     epoch |-> epoch[d], started |-> started[d], boot |-> boot[d],
     endTimer |-> endTimer[d], leftHost |-> leftHost[d], endedBy |-> endedBy[d],
     heartbeatInterval |-> heartbeatInterval[d],
     mounted |-> mounted[d], destroyed |-> destroyed[d],
     storedPlayers |-> storedPlayers[d], storedSettings |-> storedSettings[d]]

BroadcastEffectNoView(d, n, fire) ==
    /\ \/ fire
       \/ n.players # players[d]
       \/ n.settings # settings[d]
       \/ n.connectedPeers # connectedPeers[d]
    /\ n.mounted
    /\ ~n.isClient
    /\ n.connectedPeers > 0

\* The "Broadcast State (Host Only)" effect, run after the render that follows a
\* handler: `fire` says that a dependency got a new value that the fields of n do
\* not show (a new array or object with equal contents, or p2pUpdateTick).
BroadcastEffect(d, n, fire) ==
    /\ \/ fire
       \/ n.players # players[d]
       \/ n.settings # settings[d]
       \/ n.view # view[d]
       \/ n.connectedPeers # connectedPeers[d]
    /\ n.mounted
    /\ ~n.isClient
    /\ n.connectedPeers > 0

\* The "Persist ID" effect
PersistIdEffect(d, n) ==
    IF /\ n.mounted
       /\ n.connectedPeers # connectedPeers[d] \/ n.peerId # peerId[d]
       /\ n.connectedPeers > 0 /\ n.peerId # NoId
    THEN n.peerId ELSE n.storedDevice

AutosavePlayersAnyRole(n) == IF n.mounted THEN n.players ELSE n.storedPlayers

\* App: the two autosave effects, which write the snapshot while the device is
\* not in CLIENT role
AutosavePlayers(n) == IF n.mounted /\ ~n.isClient THEN n.players ELSE n.storedPlayers
AutosaveSettings(n) == IF n.mounted /\ ~n.isClient THEN n.settings ELSE n.storedSettings

Op(name, d, arg) == [op |-> name, dev |-> d, arg |-> arg]

\* the handlers that count as a user's mutation of the game
UserOps == {"StartGame", "UpdatePlayers", "SaveRound", "ResetGame", "UpdateSettings"}

\* The state after a handler on device d: n is the device's new state, tbl the
\* connections as the handler left them; the effects of the render follow.
Commit(d, n, tbl, fire, op) ==
    /\ BroadcastEffect(d, n, fire) => RoomToSend(tbl, d, n.connections)
    /\ conns' = Forget(IF BroadcastEffect(d, n, fire)
                       THEN Broadcast(tbl, d, n.connections,
                                      SyncState(n.players, n.settings, n.view))
                       ELSE tbl,
                       [connections EXCEPT ![d] = n.connections])
    /\ peer' = [peer EXCEPT ![d] = n.peer]
    /\ opening' = [opening EXCEPT ![d] = n.opening]
    /\ orphans' = [orphans EXCEPT ![d] = n.orphans]
    /\ connections' = [connections EXCEPT ![d] = n.connections]
    /\ peerId' = [peerId EXCEPT ![d] = n.peerId]
    /\ connectedPeers' = [connectedPeers EXCEPT ![d] = n.connectedPeers]
    /\ isClient' = [isClient EXCEPT ![d] = n.isClient]
    /\ isJoining' = [isJoining EXCEPT ![d] = n.isJoining]
    /\ retryCount' = [retryCount EXCEPT ![d] = n.retryCount]
    /\ hostEndedSession' = [hostEndedSession EXCEPT ![d] = n.hostEndedSession]
    /\ joinCancelled' = [joinCancelled EXCEPT ![d] = n.joinCancelled]
    /\ storedHost' = [storedHost EXCEPT ![d] = n.storedHost]
    /\ storedDevice' = [storedDevice EXCEPT ![d] = PersistIdEffect(d, n)]
    /\ players' = [players EXCEPT ![d] = n.players]
    /\ settings' = [settings EXCEPT ![d] = n.settings]
    /\ view' = [view EXCEPT ![d] = n.view]
    /\ epoch' = [epoch EXCEPT ![d] = n.epoch]
    /\ started' = [started EXCEPT ![d] = n.started]
    /\ boot' = [boot EXCEPT ![d] = n.boot]
    /\ endTimer' = [endTimer EXCEPT ![d] = n.endTimer]
    /\ leftHost' = [leftHost EXCEPT ![d] = n.leftHost]
    /\ endedBy' = [endedBy EXCEPT ![d] = n.endedBy]
    /\ heartbeatInterval' = [heartbeatInterval EXCEPT ![d] = n.heartbeatInterval]
    /\ mounted' = [mounted EXCEPT ![d] = n.mounted]
    /\ destroyed' = [destroyed EXCEPT ![d] = n.destroyed]
    /\ storedPlayers' = [storedPlayers EXCEPT ![d] = AutosavePlayers(n)]
    /\ storedSettings' = [storedSettings EXCEPT ![d] = AutosaveSettings(n)]
    /\ lastOp' = op
    /\ nOps' = IF op.op \in UserOps /\ nOps < MaxOps THEN nOps + 1 ELSE nOps

\* notifyConnectionChange() after the registry became r.reg: the callback that
\* initP2p registers once init() has resolved, setConnectedPeers(p2p.activeConnectionsCount)
Notify(n, r) ==
    IF r.notified /\ n.started
    THEN [n EXCEPT !.connections = r.reg, !.connectedPeers = Len(r.reg)]
    ELSE [n EXCEPT !.connections = r.reg]

\* App: const showLoading = isJoining || (isClient && connectedPeers === 0)
ShowLoading(d) == isJoining[d] \/ (isClient[d] /\ connectedPeers[d] = 0)

\* ------------------------------------------------------- useMultiplayer
\* _connectToHost(hostId, resolve, reject) up to the dial: [reg, tbl, resolved, conn]
ConnectToHost(tbl, d, reg, myId, hostId, silent) ==
    LET existingIndex == FindIndex(reg, LAMBDA x : PeerOf(tbl, d, x) = hostId)
        existingConn == reg[existingIndex]
        stale == existingIndex > 0 /\ ~EndOpen(tbl, d, existingConn)
        tbl1 == IF stale THEN CloseEnd(tbl, d, existingConn) ELSE tbl
        reg1 == IF stale THEN SelectSeq(reg, LAMBDA x : x # existingConn) ELSE reg
        acc == IF \E a \in Devices : a # d /\ hostId \in Alive(a)
               THEN CHOOSE a \in Devices : a # d /\ hostId \in Alive(a)
               ELSE NoDevice
        slot == NextSlot(tbl1)
    IN IF existingIndex > 0 /\ ~stale
       THEN [reg |-> reg, tbl |-> tbl, resolved |-> TRUE, conn |-> existingConn]
       ELSE [reg |-> reg1,
             tbl |-> [tbl1 EXCEPT ![slot] = NewConn(d, myId, hostId, acc, silent)],
             resolved |-> FALSE, conn |-> slot]

\* handleJoinGame after `await p2p.connect(targetHostId)` resolved
JoinResolved(n, targetHostId) ==
    IF n.joinCancelled THEN n
    ELSE [n EXCEPT !.isClient = TRUE, !.hostEndedSession = FALSE,
                   !.storedHost = targetHostId, !.retryCount = 0,
                   !.storedDevice = IF n.peer # NoId THEN n.peer ELSE @,
                   !.isJoining = FALSE]

\* handleJoinGame after `await p2p.connect(targetHostId)` rejected with `kind`
JoinRejectedAlwaysRetry(n, kind, silent) ==
    IF n.joinCancelled THEN n
    ELSE IF ~silent
    THEN [n EXCEPT !.isClient = FALSE, !.storedHost = NoId, !.isJoining = FALSE]
    ELSE [n EXCEPT !.retryCount = @ + 1, !.isJoining = FALSE]

JoinRejectedSilentNoCount(n, kind, silent) ==
    IF n.joinCancelled THEN n
    ELSE IF kind = "peer-unavailable"
    THEN [n EXCEPT !.isClient = FALSE, !.storedHost = NoId, !.retryCount = 0,
                   !.isJoining = FALSE]
    ELSE IF ~silent
    THEN [n EXCEPT !.isClient = FALSE, !.storedHost = NoId, !.isJoining = FALSE]
    ELSE [n EXCEPT !.isJoining = FALSE]

JoinRejectedLoudKeepsHost(n, kind, silent) ==
    IF n.joinCancelled THEN n
    ELSE IF kind = "peer-unavailable"
    THEN [n EXCEPT !.isClient = FALSE, !.storedHost = NoId, !.retryCount = 0,
                   !.isJoining = FALSE]
    ELSE IF ~silent
    THEN [n EXCEPT !.isJoining = FALSE]
    ELSE [n EXCEPT !.retryCount = @ + 1, !.isJoining = FALSE]

JoinRejected(n, kind, silent) ==
    IF n.joinCancelled THEN n
    ELSE IF kind = "peer-unavailable"
    THEN [n EXCEPT !.isClient = FALSE, !.storedHost = NoId, !.retryCount = 0,
                   !.isJoining = FALSE]
    ELSE IF ~silent
    THEN [n EXCEPT !.isClient = FALSE, !.storedHost = NoId, !.isJoining = FALSE]
    ELSE [n EXCEPT !.retryCount = @ + 1, !.isJoining = FALSE]

\* does handleJoinGame alert the user on this rejection
JoinAlerts(n, silent) == ~n.joinCancelled /\ ~silent

JoinGameAlwaysDial(d, n, tbl, targetHostId, silent) ==
    IF n.peer = NoId
    THEN [n |-> [n EXCEPT !.joinCancelled = FALSE, !.isJoining = TRUE,
                          !.epoch = @ + 1,
                          !.opening = Append(@, ConnectCall(<<d, n.epoch + 1>>,
                                                            targetHostId, silent))],
          tbl |-> tbl, already |-> FALSE, conn |-> 0]
    ELSE LET acc == IF \E a \in Devices : a # d /\ targetHostId \in Alive(a)
                    THEN CHOOSE a \in Devices : a # d /\ targetHostId \in Alive(a)
                    ELSE NoDevice
             slot == NextSlot(tbl)
         IN [n |-> [n EXCEPT !.joinCancelled = FALSE, !.isJoining = TRUE],
             tbl |-> [tbl EXCEPT ![slot] = NewConn(d, n.peer, targetHostId, acc, silent)],
             already |-> FALSE, conn |-> slot]

\* handleJoinGame(targetHostId, silent) up to the await, on device d in state n:
\* [n, tbl, already, conn]
JoinGame(d, n, tbl, targetHostId, silent) ==
    IF targetHostId \in ConnectedPeerIds(tbl, d, n.connections)
    THEN [n |-> [n EXCEPT !.isJoining = FALSE, !.retryCount = 0, !.isClient = TRUE],
          tbl |-> tbl, already |-> TRUE, conn |-> 0]
    ELSE IF n.peer = NoId
    THEN [n |-> [n EXCEPT !.joinCancelled = FALSE, !.isJoining = TRUE,
                          !.epoch = @ + 1,
                          !.opening = Append(@, ConnectCall(<<d, n.epoch + 1>>,
                                                            targetHostId, silent))],
          tbl |-> tbl, already |-> FALSE, conn |-> 0]
    ELSE LET r == ConnectToHost(tbl, d, n.connections, n.peer, targetHostId, silent)
             n0 == [n EXCEPT !.joinCancelled = FALSE, !.isJoining = TRUE,
                             !.connections = r.reg]
         IN [n |-> IF r.resolved THEN JoinResolved(n0, targetHostId) ELSE n0,
             tbl |-> r.tbl, already |-> FALSE, conn |-> r.conn]

JoinOp(d, j, targetHostId, silent, cause) ==
    IF j.already
    THEN Op("JoinAlready", d, [target |-> targetHostId, silent |-> silent, cause |-> cause])
    ELSE Op("JoinStart", d, [target |-> targetHostId, silent |-> silent, cause |-> cause,
                             conn |-> j.conn])

HandleJoinGame(d, targetHostId, silent, cause) ==
    /\ targetHostId \notin Alive(d)
    /\ targetHostId \notin ConnectedPeerIds(conns, d, connections[d])
        => IF peer[d] = NoId
           THEN epoch[d] < MaxEpoch /\ Len(opening[d]) < MaxOpening
           ELSE FreeSlots(conns) # {}
    /\ LET j == JoinGame(d, Cur(d), conns, targetHostId, silent)
       IN Commit(d, [j.n EXCEPT !.leftHost = IF cause = "user" THEN NoId ELSE @,
                                !.endedBy = IF cause = "user" THEN NoId ELSE @],
                 j.tbl, FALSE, JoinOp(d, j, targetHostId, silent, cause))

\* the user joins a host from the multiplayer dialog
UserJoin(d, targetHostId) ==
    /\ mounted[d] /\ ~ShowLoading(d)
    /\ HandleJoinGame(d, targetHostId, FALSE, "user")

\* the "Auto-Reconnect" effect: the timer it arms, firing
AutoReconnectArmedNoCeiling(d) ==
    /\ isClient[d] /\ ~hostEndedSession[d]
    /\ connectedPeers[d] = 0
    /\ storedHost[d] # NoId

AutoReconnectArmed(d) ==
    /\ isClient[d] /\ ~hostEndedSession[d]
    /\ connectedPeers[d] = 0
    /\ storedHost[d] # NoId
    /\ retryCount[d] < MAX_RETRIES

AutoReconnect(d) ==
    /\ mounted[d] /\ AutoReconnectArmed(d)
    /\ ~isJoining[d] /\ Len(connections[d]) = 0
    /\ HandleJoinGame(d, storedHost[d], TRUE, "timer")

\* the backup polling interval of initP2p at device d: its closure holds the
\* connectedPeers of the first render, 0, so that it sets the count only when the
\* registry is not empty
PollConnections(d) ==
    /\ mounted[d] /\ started[d]
    /\ Len(connections[d]) # 0 /\ connectedPeers[d] # Len(connections[d])
    /\ Commit(d, [Cur(d) EXCEPT !.connectedPeers = Len(connections[d])], conns, FALSE,
              Op("Poll", d, <<>>))

\* handleCancelJoin: the Cancel button of the loading screen
HandleCancelJoin(d) ==
    /\ ShowLoading(d)
    /\ Commit(d, [Cur(d) EXCEPT !.joinCancelled = TRUE, !.isJoining = FALSE,
                                !.storedHost = NoId, !.isClient = FALSE,
                                !.retryCount = 0,
                                !.opening = [i \in 1..Len(@) |->
                                                IF @[i].kind = "connect"
                                                THEN [@[i] EXCEPT !.cut = TRUE]
                                                ELSE @[i]]],
              [c \in ConnIds |->
                  IF conns[c].dialer = d /\ conns[c].dSt \in {"pending", "dead"}
                  THEN [conns[c] EXCEPT !.cut = TRUE] ELSE conns[c]],
              FALSE, Op("CancelJoin", d, <<>>))

AfterRejoinSendsTwice(tbl, d, reg, hostId, req) ==
    IF req # NoMsg /\ hostId \in ConnectedPeerIds(tbl, d, reg)
    THEN Broadcast(Broadcast(tbl, d, reg, req), d, reg, req) ELSE tbl

\* sendToHostAction after `await handleJoinGame(hostId, true)`: the request is sent
\* with sendToHost when a connection of the host is registered, and dropped otherwise
AfterRejoin(tbl, d, reg, hostId, req) ==
    IF req # NoMsg /\ hostId \in ConnectedPeerIds(tbl, d, reg)
    THEN Broadcast(tbl, d, reg, req) ELSE tbl

\* sendToHostAction(msg) up to its await: nothing without a persisted host, the
\* request at once when a connection of the host is registered, else a silent
\* handleJoinGame of the host with the request waiting for it
SendToHostAction(d, msg) ==
    LET hostId == storedHost[d]
        j == JoinGame(d, Cur(d), conns, hostId, TRUE)
        last == Len(j.n.opening)
    IN /\ started[d]
       /\ hostId \notin Alive(d)
       /\ IF hostId = NoId
          THEN Commit(d, Cur(d), conns, FALSE,
                      Op("SendToHostAction", d, [req |-> msg, sent |-> FALSE]))
          ELSE IF hostId \in ConnectedPeerIds(conns, d, connections[d])
          THEN /\ RoomToSend(conns, d, connections[d])
               /\ Commit(d, Cur(d), Broadcast(conns, d, connections[d], msg), FALSE,
                         Op("SendToHostAction", d, [req |-> msg, sent |-> TRUE]))
          ELSE /\ IF peer[d] = NoId
                  THEN epoch[d] < MaxEpoch /\ Len(opening[d]) < MaxOpening
                  ELSE FreeSlots(conns) # {}
               /\ Commit(d,
                         IF j.conn = 0
                         THEN [j.n EXCEPT !.opening[last].req = msg] ELSE j.n,
                         IF j.conn = 0
                         THEN j.tbl ELSE [j.tbl EXCEPT ![j.conn].req = msg],
                         FALSE,
                         Op("JoinStart", d, [target |-> hostId, silent |-> TRUE,
                                             cause |-> "request", conn |-> j.conn]))

\* ------------------------------------------------------ transport events
\* the dialled connection opens at the dialer: onOpen of _connectToHost, then the
\* continuation of handleJoinGame
DialerOpen(c) ==
    LET d == conns[c].dialer
        a == conns[c].acceptor
    IN /\ d # NoDevice /\ conns[c].dSt = "pending"
       /\ a # NoDevice
       /\ \/ conns[c].aSt = "open"
          \/ conns[c].aSt = "none" /\ conns[c].target \in Alive(a)
       /\ LET r == SetupConnection([conns EXCEPT ![c].dSt = "open", ![c].req = NoMsg],
                                   d, connections[d], c)
          IN /\ conns[c].req # NoMsg => RoomToSend(r.tbl, d, r.reg)
             /\ Commit(d, JoinResolved(Notify(Cur(d), r), conns[c].target),
                    AfterRejoin(r.tbl, d, r.reg, conns[c].target, conns[c].req),
                    r.notified,
                    Op("JoinResolved", d, [target |-> conns[c].target,
                                           silent |-> conns[c].silent,
                                           cancelled |-> joinCancelled[d],
                                           cut |-> conns[c].cut,
                                           req |-> conns[c].req,
                                           replaced |-> Replaced(connections[d], r)]))

\* the 'open' event of a dial whose listeners cleanup() has removed: setupConnection
\* would register the connection, but the event reaches no listener
LateOpenRegisters(tbl, d, reg, c) ==
    SetupConnection([tbl EXCEPT ![c].dSt = "open"], d, reg, c)

LateOpen(tbl, d, reg, c) == [reg |-> reg, tbl |-> tbl, notified |-> FALSE]

\* the connection of a dial that the connect timeout rejected opens at the dialer
DialerLateOpen(c) ==
    LET d == conns[c].dialer
        a == conns[c].acceptor
    IN /\ d # NoDevice /\ conns[c].dSt = "abandoned"
       /\ a # NoDevice
       /\ \/ conns[c].aSt = "open"
          \/ conns[c].aSt = "none" /\ conns[c].target \in Alive(a)
       /\ LET r == LateOpen([conns EXCEPT ![c].dSt = "unheard"], d, connections[d], c)
          IN Commit(d, Notify(Cur(d), r), r.tbl, r.notified,
                    Op("LateOpen", d, [target |-> conns[c].target, conn |-> c]))

\* the dialled connection opens at the acceptor: peer.on('connection') and conn.on('open')
AcceptorOpen(c) ==
    LET a == conns[c].acceptor
    IN /\ a # NoDevice /\ conns[c].aSt = "none"
       /\ conns[c].target \in Alive(a)
       /\ conns[c].dSt \in {"pending", "open", "abandoned", "unheard"}
       /\ LET r == SetupConnection([conns EXCEPT ![c].aSt = "open"], a, connections[a], c)
          IN Commit(a, Notify(Cur(a), r), r.tbl, r.notified,
                    Op("Incoming", a, [from |-> conns[c].dialerId,
                                       replaced |-> Replaced(connections[a], r)]))

\* the dial fails: the timeout, the connection's 'error', or the endpoint's
\* 'peer-unavailable' error for this host, then the continuation of handleJoinGame
JoinFailKinds == {"timeout", "error", "peer-unavailable"}

DialFailed(c, kind) ==
    LET d == conns[c].dialer
        a == conns[c].acceptor
        canStillOpen == /\ kind = "timeout" /\ conns[c].dSt = "pending"
                        /\ a # NoDevice
                        /\ \/ conns[c].aSt = "open"
                           \/ conns[c].aSt = "none" /\ conns[c].target \in Alive(a)
    IN /\ d # NoDevice
       /\ \/ kind = "timeout" /\ conns[c].dSt \in {"pending", "dead"}
          \/ kind = "error" /\ conns[c].dSt = "pending"
          \/ /\ kind = "peer-unavailable" /\ conns[c].dSt = "pending"
             /\ \A x \in Devices : conns[c].target \notin Alive(x)
       /\ retryCount[d] <= MAX_RETRIES + 1
       /\ conns[c].req # NoMsg => RoomToSend(conns, d, connections[d])
       /\ Commit(d, JoinRejected(Cur(d), kind, conns[c].silent),
                 AfterRejoin([conns EXCEPT ![c].dSt = IF canStillOpen THEN "abandoned"
                                                     ELSE "closed",
                                           ![c].toD = <<>>, ![c].req = NoMsg],
                             d, connections[d], conns[c].target, conns[c].req),
                 FALSE,
                 Op("JoinRejected", d, [target |-> conns[c].target,
                                        silent |-> conns[c].silent, kind |-> kind,
                                        cancelled |-> joinCancelled[d],
                                        cut |-> conns[c].cut,
                                        req |-> conns[c].req,
                                        alert |-> JoinAlerts(Cur(d), conns[c].silent)]))

\* history: d is a connected client, with nothing under way: it is in CLIENT role,
\* the connection to its persisted host is registered, no join is in progress, the
\* host has not ended the session and retries are left
ConnectedClient(d) ==
    /\ isClient[d] /\ ~isJoining[d] /\ ~hostEndedSession[d]
    /\ storedHost[d] # NoId
    /\ storedHost[d] \in ConnectedPeerIds(conns, d, connections[d])
    /\ retryCount[d] < MAX_RETRIES

\* a 'close' event on d's end of c (the far end closed, or the network did)
ConnClosed(d, c) ==
    /\ conns[c].dialer # NoDevice
    /\ \/ conns[c].dialer = d /\ conns[c].dSt \in {"open", "abandoned", "unheard"}
       \/ conns[c].acceptor = d /\ conns[c].dialer # d /\ conns[c].aSt = "open"
    /\ LET r == OnConnClose(conns, d, connections[d], c)
       IN Commit(d, Notify(Cur(d), r), CloseEnd(conns, d, c), r.notified,
                 Op("ConnClosed", d, [peer |-> PeerOf(conns, d, c),
                                      hostLost |-> /\ ConnectedClient(d)
                                                   /\ c \in SeqRange(connections[d])
                                                   /\ PeerOf(conns, d, c) = storedHost[d]]))

\* an endpoint that init() created opens: peer.on('open') of createPeer, then what
\* awaited it: setPeerId(id) of the caller, or _connectToHost of connect() and,
\* when that finds the host connected already, the continuation of handleJoinGame
PeerOpen(d, i) ==
    /\ i \in 1..Len(opening[d])
    /\ opening[d][i].kind \in {"init", "connect"}
    /\ LET e == opening[d][i]
           n0 == SetPeer([Cur(d) EXCEPT !.opening = Splice(@, i)], e.id)
           r == ConnectToHost(conns, d, n0.connections, e.id, e.target, e.silent)
           n1 == [n0 EXCEPT !.connections = r.reg]
       IN IF e.kind = "init"
          THEN Commit(d, [n0 EXCEPT !.peerId = e.id], conns, FALSE, Op("PeerOpen", d, <<>>))
          ELSE /\ FreeSlots(conns) # {}
               /\ e.req # NoMsg => RoomToSend(r.tbl, d, r.reg)
               /\ IF r.resolved
                  THEN Commit(d, JoinResolved(n1, e.target),
                              AfterRejoin(r.tbl, d, r.reg, e.target, e.req), FALSE,
                              Op("JoinResolved", d, [target |-> e.target,
                                                     silent |-> e.silent,
                                                     cancelled |-> joinCancelled[d],
                                                     cut |-> e.cut,
                                                     req |-> e.req,
                                                     replaced |-> FALSE]))
                  ELSE Commit(d, n1, [r.tbl EXCEPT ![r.conn].req = e.req,
                                                   ![r.conn].cut = e.cut], FALSE,
                              Op("Dial", d, [target |-> e.target, silent |-> e.silent,
                                             conn |-> r.conn]))

\* an endpoint that init() created gets an error of type 'network' before it has
\* opened, after which it is destroyed and never opens: peer.on('error') of
\* createPeer.  While this.hostId is set (another endpoint of the service has
\* opened) the error is suppressed and the promise of this init() is never settled;
\* otherwise init() rejects, and so does the connect() that awaited it, and
\* handleJoinGame goes on in its catch block
PeerError(d, i) ==
    /\ i \in 1..Len(opening[d])
    /\ opening[d][i].kind \in {"init", "connect"}
    /\ LET e == opening[d][i]
           n0 == [Cur(d) EXCEPT !.opening = Splice(@, i)]
       IN IF peer[d] # NoId
          THEN Commit(d, [Cur(d) EXCEPT !.opening[i].kind =
                                            IF e.kind = "connect" THEN "lost-connect"
                                            ELSE "lost-init"],
                      conns, FALSE, Op("PeerErrorSuppressed", d, [target |-> e.target]))
          ELSE IF e.kind = "init"
          THEN Commit(d, n0, conns, FALSE, Op("InitRejected", d, <<>>))
          ELSE /\ retryCount[d] <= MAX_RETRIES + 1
               /\ e.req # NoMsg => RoomToSend(conns, d, connections[d])
               /\ Commit(d, JoinRejected(n0, "error", e.silent),
                         AfterRejoin(conns, d, connections[d], e.target, e.req), FALSE,
                         Op("JoinRejected", d, [target |-> e.target, silent |-> e.silent,
                                                kind |-> "error",
                                                cancelled |-> joinCancelled[d],
                                                cut |-> e.cut, req |-> e.req,
                                                alert |-> JoinAlerts(Cur(d), e.silent)]))

\* useState(() => !!localStorage.getItem('snapscore_host_id')): the role a page
\* starts in
InitialIsClient(host) == host # NoId

\* initP2p of the "Init P2P" effect, from `await p2p.init(...)` on: the endpoint
\* opens with the device identity read at mount when there was one; a join link is
\* joined, else a host read at mount is rejoined silently
InitP2pLoudRejoin(d) ==
    /\ ~started[d]
    /\ FreeSlots(conns) # {}
    /\ LET b == boot[d]
           id == IF b.device # NoId THEN b.device ELSE <<d, epoch[d]>>
           n0 == [SetPeer(Cur(d), id) EXCEPT !.started = TRUE, !.peerId = id,
                                !.storedDevice =
                                    IF /\ b.device # NoId \/ b.host # NoId \/ b.join # NoId
                                       /\ b.device # id
                                    THEN id ELSE @]
           n1 == [n0 EXCEPT !.storedHost = NoId, !.isClient = FALSE, !.retryCount = 0,
                            !.hostEndedSession = FALSE]
           jl == JoinGame(d, n1, conns, b.join, FALSE)
           js == JoinGame(d, n0, conns, b.host, FALSE)
       IN IF b.join # NoId
          THEN Commit(d, [jl.n EXCEPT !.leftHost = NoId, !.endedBy = NoId], jl.tbl, FALSE,
                      JoinOp(d, jl, b.join, FALSE, "link"))
          ELSE IF b.host # NoId
          THEN Commit(d, js.n, js.tbl, FALSE, JoinOp(d, js, b.host, FALSE, "startup"))
          ELSE Commit(d, n0, conns, FALSE, Op("InitP2p", d, <<>>))

InitP2p(d) ==
    /\ ~started[d]
    /\ FreeSlots(conns) # {}
    /\ LET b == boot[d]
           id == IF b.device # NoId THEN b.device ELSE <<d, epoch[d]>>
           n0 == [SetPeer(Cur(d), id) EXCEPT !.started = TRUE, !.peerId = id,
                                !.storedDevice =
                                    IF /\ b.device # NoId \/ b.host # NoId \/ b.join # NoId
                                       /\ b.device # id
                                    THEN id ELSE @]
           n1 == [n0 EXCEPT !.storedHost = NoId, !.isClient = FALSE, !.retryCount = 0,
                            !.hostEndedSession = FALSE]
           jl == JoinGame(d, n1, conns, b.join, FALSE)
           js == JoinGame(d, n0, conns, b.host, TRUE)
       IN IF b.join # NoId
          THEN Commit(d, [jl.n EXCEPT !.leftHost = NoId, !.endedBy = NoId], jl.tbl, FALSE,
                      JoinOp(d, jl, b.join, FALSE, "link"))
          ELSE IF b.host # NoId
          THEN Commit(d, js.n, js.tbl, FALSE, JoinOp(d, js, b.host, TRUE, "startup"))
          ELSE Commit(d, n0, conns, FALSE, Op("InitP2p", d, <<>>))

\* initP2p when the signalling server answers the preferred identity with
\* 'unavailable-id': init() destroys that endpoint and creates one under a newly
\* generated identity, which is the one it resolves with
InitP2pUnavailable(d) ==
    /\ ~started[d]
    /\ FreeSlots(conns) # {}
    /\ boot[d].device # NoId /\ epoch[d] < MaxEpoch
    /\ LET b == boot[d]
           id == <<d, epoch[d] + 1>>
           n0 == [SetPeer(Cur(d), id) EXCEPT !.started = TRUE, !.peerId = id,
                                !.epoch = @ + 1,
                                !.storedDevice =
                                    IF /\ b.device # NoId \/ b.host # NoId \/ b.join # NoId
                                       /\ b.device # id
                                    THEN id ELSE @]
           n1 == [n0 EXCEPT !.storedHost = NoId, !.isClient = FALSE, !.retryCount = 0,
                            !.hostEndedSession = FALSE]
           jl == JoinGame(d, n1, conns, b.join, FALSE)
           js == JoinGame(d, n0, conns, b.host, TRUE)
       IN IF b.join # NoId
          THEN Commit(d, [jl.n EXCEPT !.leftHost = NoId, !.endedBy = NoId], jl.tbl, FALSE,
                      JoinOp(d, jl, b.join, FALSE, "link"))
          ELSE IF b.host # NoId
          THEN Commit(d, js.n, js.tbl, FALSE, JoinOp(d, js, b.host, TRUE, "startup"))
          ELSE Commit(d, n0, conns, FALSE, Op("InitP2p", d, <<>>))

DestroyKeepsHeartbeat(tbl, d, n) ==
    [n |-> [n EXCEPT !.peer = NoId, !.connections = <<>>,
                     !.destroyed = TRUE,
                     !.connectedPeers =
                         IF /\ n.started
                            /\ \E i \in 1..Len(n.connections) : EndOpen(tbl, d, n.connections[i])
                         THEN Cardinality({i \in 1..Len(n.connections) :
                                             ~EndOpen(tbl, d, n.connections[i])})
                         ELSE @],
     tbl |-> CloseAllOf(tbl, d, n.connections, n.peer, 1)]

\* destroy() at device d in state n: [n, tbl]
Destroy(tbl, d, n) ==
    [n |-> [n EXCEPT !.peer = NoId, !.connections = <<>>,
                     !.heartbeatInterval = FALSE, !.destroyed = TRUE,
                     !.connectedPeers =
                         IF /\ n.started
                            /\ \E i \in 1..Len(n.connections) : EndOpen(tbl, d, n.connections[i])
                         THEN Cardinality({i \in 1..Len(n.connections) :
                                             ~EndOpen(tbl, d, n.connections[i])})
                         ELSE @],
     tbl |-> CloseAllOf(tbl, d, n.connections, n.peer, 1)]

\* the hook of device d is unmounted: the cleanup of the "Init P2P" effect clears
\* the polling interval and destroys the service, the cleanup of the
\* "Auto-Reconnect" effect clears its timer; the timer of handleHostEndSession and
\* the calls that are in flight stay
Unmount(d) ==
    /\ mounted[d] /\ started[d]
    /\ LET x == Destroy(conns, d, [Cur(d) EXCEPT !.mounted = FALSE])
       IN Commit(d, x.n, x.tbl, FALSE, Op("Unmount", d, <<>>))

\* window.location.reload() on device d in state n, the storage as n has it: the
\* 'beforeunload' listener destroys the endpoint, every connection end, timer and
\* pending continuation of the page is gone, and the new page mounts with the initial
\* state of the hooks, having read the storage: [n, tbl]
Reload(tbl, d, n) ==
    LET client == InitialIsClient(n.storedHost)
    IN [n |-> [n EXCEPT !.peer = NoId, !.opening = <<>>, !.orphans = {},
                        !.connections = <<>>, !.peerId = NoId, !.connectedPeers = 0,
                        !.isClient = client, !.isJoining = FALSE, !.retryCount = 0,
                        !.hostEndedSession = FALSE, !.joinCancelled = FALSE,
                        !.players = IF client THEN <<>> ELSE n.storedPlayers,
                        !.settings = IF client THEN DEFAULT_SETTINGS ELSE n.storedSettings,
                        !.view = IF ~client /\ Len(n.storedPlayers) > 0
                                 THEN "GAME" ELSE "SETUP",
                        !.epoch = IF n.storedDevice = NoId THEN @ + 1 ELSE @,
                        !.started = FALSE, !.endTimer = FALSE,
                        !.heartbeatInterval = TRUE, !.mounted = TRUE, !.destroyed = FALSE,
                        !.boot = [device |-> n.storedDevice, host |-> n.storedHost,
                                  join |-> NoId]],
        tbl |-> [c \in ConnIds |->
                    IF tbl[c].dialer = d
                    THEN [tbl[c] EXCEPT !.dSt = "closed", !.toD = <<>>]
                    ELSE IF tbl[c].acceptor = d
                    THEN [tbl[c] EXCEPT !.aSt = "closed", !.toA = <<>>]
                    ELSE tbl[c]]]

HandleLeaveGameKeepsHost(d) ==
    /\ started[d] /\ isClient[d] /\ ~ShowLoading(d)
    /\ storedDevice[d] = NoId => epoch[d] < MaxEpoch
    /\ LET x == Reload(conns, d, [Cur(d) EXCEPT !.leftHost = storedHost[d]])
       IN Commit(d, x.n, x.tbl, FALSE, Op("LeaveGame", d, [former |-> storedHost[d]]))

\* handleLeaveGame: the Leave button that a client is offered in the game and
\* settings views, which the loading screen replaces
HandleLeaveGame(d) ==
    /\ started[d] /\ isClient[d] /\ ~ShowLoading(d)
    /\ storedDevice[d] = NoId => epoch[d] < MaxEpoch
    /\ LET x == Reload(conns, d, [Cur(d) EXCEPT !.storedHost = NoId,
                                                !.leftHost = storedHost[d]])
       IN Commit(d, x.n, x.tbl, FALSE, Op("LeaveGame", d, [former |-> storedHost[d]]))

\* handleHostEndSession: a host announces the end of the session and arms the
\* timer that gives it a new endpoint
HandleHostEndSession(d) ==
    /\ mounted[d] /\ ~isClient[d]
    /\ ~endTimer[d] /\ epoch[d] < MaxEpoch /\ Len(opening[d]) < MaxOpening
    /\ RoomToSend(conns, d, connections[d])
    /\ Commit(d, [Cur(d) EXCEPT !.endTimer = TRUE],
              Broadcast(conns, d, connections[d], GameEnded), FALSE,
              Op("HostEndSession", d, <<>>))

\* the timer of handleHostEndSession fires: the persisted host is removed, the
\* endpoint destroyed and init() called
EndSessionTimer(d) ==
    /\ endTimer[d]
    /\ epoch[d] < MaxEpoch /\ Len(opening[d]) < MaxOpening
    /\ LET x == Destroy(conns, d, [Cur(d) EXCEPT
                                     !.endTimer = FALSE, !.storedHost = NoId,
                                     !.epoch = @ + 1,
                                     !.opening = Append(@, InitCall(<<d, epoch[d] + 1>>))])
       IN Commit(d, x.n, x.tbl, FALSE, Op("EndSessionTimer", d, <<>>))

\* -------------------------------------------------------------------- App
\* Each handler below gives [n, tbl, fire, send]: the device's new state, the
\* connections, whether a state setter got a new array or object, and whether the
\* handler sent a frame with p2p.sendToHost.
Local(n, tbl, fire) == [n |-> n, tbl |-> tbl, fire |-> fire, send |-> FALSE]
Sent(d, n, tbl, msg) ==
    [n |-> n, tbl |-> Broadcast(tbl, d, n.connections, msg), fire |-> FALSE, send |-> TRUE]

\* handleSaveRound(playerId, round)
HandleSaveRound(d, n, tbl, playerId, round) ==
    IF n.isClient THEN Sent(d, n, tbl, RequestSaveRound(playerId, round))
    ELSE Local([n EXCEPT !.players = UpdatePlayerRound(@, playerId, round)], tbl, TRUE)

\* handleResetGame()
HandleResetGame(d, n, tbl) ==
    IF n.isClient THEN Sent(d, n, tbl, RequestReset)
    ELSE LET x == Destroy(tbl, d, [n EXCEPT !.players = <<>>, !.storedDevice = NoId,
                                            !.view = "SETUP", !.epoch = @ + 1,
                                            !.opening = Append(@, InitCall(<<d, n.epoch + 1>>))])
         IN Local(x.n, x.tbl, TRUE)

\* handleStartGame(newPlayers)
HandleStartGame(d, n, tbl, newPlayers) ==
    IF n.isClient THEN Sent(d, n, tbl, RequestAddPlayers(newPlayers))
    ELSE Local([n EXCEPT !.players = AddPlayers(@, newPlayers), !.view = "GAME",
                         !.storedDevice = IF n.peerId # NoId THEN n.peerId ELSE @],
               tbl, TRUE)

\* handleUpdatePlayers(newPlayers)
HandleUpdatePlayers(d, n, tbl, newPlayers) ==
    IF n.isClient THEN Local(n, tbl, FALSE)
    ELSE Local([n EXCEPT !.players = newPlayers], tbl, TRUE)

\* handleUpdateSettings(newSettings)
HandleUpdateSettings(d, n, tbl, newSettings) ==
    IF n.isClient THEN Sent(d, n, tbl, RequestSettingsUpdate(newSettings))
    ELSE Local([n EXCEPT !.settings = newSettings,
                         !.view = IF Len(n.players) > 0 THEN "GAME" ELSE "SETUP"],
               tbl, TRUE)

\* handleP2PMessage(msg)
HandleP2PMessageKeepRole(d, n, tbl, msg) ==
    IF msg.type = "SYNC_STATE"
    THEN Local([n EXCEPT !.isClient = @ \/ n.storedHost # NoId,
                         !.players = msg.payload.players,
                         !.settings = msg.payload.settings,
                         !.view = IF msg.payload.view \in {"GAME", "SETUP"}
                                  THEN msg.payload.view ELSE @],
               tbl, TRUE)
    ELSE IF msg.type = "REQUEST_SAVE_ROUND"
    THEN HandleSaveRound(d, n, tbl, msg.payload.playerId, msg.payload.round)
    ELSE IF msg.type = "REQUEST_RESET"
    THEN HandleResetGame(d, n, tbl)
    ELSE IF msg.type = "REQUEST_SETTINGS_UPDATE"
    THEN Local([n EXCEPT !.settings = msg.payload], tbl, TRUE)
    ELSE IF msg.type = "REQUEST_ADD_PLAYERS"
    THEN Local([n EXCEPT !.players = AddPlayers(@, msg.payload)], tbl, TRUE)
    ELSE Local(n, tbl, FALSE)

HandleP2PMessageUnknownResets(d, n, tbl, msg) ==
    IF msg.type = "SYNC_STATE"
    THEN Local([n EXCEPT !.isClient = TRUE,
                         !.players = msg.payload.players,
                         !.settings = msg.payload.settings,
                         !.view = IF msg.payload.view \in {"GAME", "SETUP"}
                                  THEN msg.payload.view ELSE @],
               tbl, TRUE)
    ELSE IF msg.type = "REQUEST_SAVE_ROUND"
    THEN HandleSaveRound(d, n, tbl, msg.payload.playerId, msg.payload.round)
    ELSE IF msg.type = "REQUEST_SETTINGS_UPDATE"
    THEN Local([n EXCEPT !.settings = msg.payload], tbl, TRUE)
    ELSE IF msg.type = "REQUEST_ADD_PLAYERS"
    THEN Local([n EXCEPT !.players = AddPlayers(@, msg.payload)], tbl, TRUE)
    ELSE Local([n EXCEPT !.players = <<>>, !.view = "SETUP"], tbl, TRUE)

HandleP2PMessage(d, n, tbl, msg) ==
    IF msg.type = "SYNC_STATE"
    THEN Local([n EXCEPT !.isClient = TRUE,
                         !.players = msg.payload.players,
                         !.settings = msg.payload.settings,
                         !.view = IF msg.payload.view \in {"GAME", "SETUP"}
                                  THEN msg.payload.view ELSE @],
               tbl, TRUE)
    ELSE IF msg.type = "REQUEST_SAVE_ROUND"
    THEN HandleSaveRound(d, n, tbl, msg.payload.playerId, msg.payload.round)
    ELSE IF msg.type = "REQUEST_RESET"
    THEN HandleResetGame(d, n, tbl)
    ELSE IF msg.type = "REQUEST_SETTINGS_UPDATE"
    THEN Local([n EXCEPT !.settings = msg.payload], tbl, TRUE)
    ELSE IF msg.type = "REQUEST_ADD_PLAYERS"
    THEN Local([n EXCEPT !.players = AddPlayers(@, msg.payload)], tbl, TRUE)
    ELSE Local(n, tbl, FALSE)

\* a handler's result becomes the next state
Apply(d, h, op) ==
    /\ h.send => RoomToSend(conns, d, connections[d])
    /\ h.n.epoch <= MaxEpoch /\ Len(h.n.opening) <= MaxOpening
    /\ Commit(d, h.n, h.tbl, h.fire, op)

\* a frame arrives at d's end of c: the 'data' listener of setupConnection, the
\* filter of the hook's onMessage, then handleP2PMessage
Inbox(tbl, d, c) == IF IsDialer(tbl, d, c) THEN tbl[c].toD ELSE tbl[c].toA

PopInbox(tbl, d, c) ==
    IF IsDialer(tbl, d, c) THEN [tbl EXCEPT ![c].toD = Tail(@)]
    ELSE [tbl EXCEPT ![c].toA = Tail(@)]

DeliverUnfiltered(d, c) ==
    /\ c \in SeqRange(connections[d])
    /\ EndOpen(conns, d, c)
    /\ Inbox(conns, d, c) # <<>>
    /\ LET msg == Head(Inbox(conns, d, c))
           tbl == PopInbox(conns, d, c)
       IN Apply(d, HandleP2PMessage(d, [Cur(d) EXCEPT !.endedBy =
                                            IF msg.type = "GAME_ENDED"
                                            THEN PeerOf(conns, d, c) ELSE @],
                                    tbl, msg),
                Op(msg.type, d, [wasClient |-> isClient[d],
                                 from |-> PeerOf(conns, d, c), conn |-> c]))

Deliver(d, c) ==
    /\ c \in SeqRange(connections[d])
    /\ EndOpen(conns, d, c)
    /\ Inbox(conns, d, c) # <<>>
    /\ LET msg == Head(Inbox(conns, d, c))
           tbl == PopInbox(conns, d, c)
       IN IF msg.type = "HEARTBEAT"
          THEN Commit(d, Cur(d), tbl, FALSE, Op("Heartbeat", d, <<>>))
          ELSE IF ~started[d]
          THEN Commit(d, Cur(d), tbl, FALSE, Op("NoCallback", d, <<>>))
          ELSE Apply(d, HandleP2PMessage(d, [Cur(d) EXCEPT !.endedBy =
                                                IF msg.type = "GAME_ENDED"
                                                THEN PeerOf(conns, d, c) ELSE @],
                                         tbl, msg),
                     Op(msg.type, d, [wasClient |-> isClient[d],
                                      from |-> PeerOf(conns, d, c), conn |-> c,
                                      absent |-> /\ msg.type = "REQUEST_SAVE_ROUND"
                                                 /\ AbsentPlayer(players[d],
                                                                 msg.payload.playerId)]))

\* the interval of startHeartbeat fires at device d
HeartbeatTick(d) ==
    /\ heartbeatInterval[d]
    /\ RoomToSend(conns, d, connections[d])
    /\ Commit(d, Cur(d), Broadcast(conns, d, connections[d], Heartbeat), FALSE,
              Op("HeartbeatTick", d, <<>>))

\* ------------------------------------------------------------ user actions
\* SetupView: onStart(validPlayers)
UserStartGame(d, newPlayers) ==
    /\ mounted[d] /\ ~ShowLoading(d) /\ view[d] = "SETUP"
    /\ Len(players[d]) + Len(newPlayers) <= MaxPlayers
    /\ Apply(d, HandleStartGame(d, Cur(d), conns, newPlayers),
             Op("StartGame", d, [wasClient |-> isClient[d]]))

\* GameView: handleManualSave / handleRoundSave
UserSaveRound(d, playerId, round) ==
    /\ ~ShowLoading(d) /\ view[d] = "GAME"
    /\ Apply(d, HandleSaveRound(d, Cur(d), conns, playerId, round),
             Op("SaveRound", d,
                [wasClient |-> isClient[d],
                 existed |-> \E i \in 1..Len(players[d]) :
                                /\ players[d][i].id = playerId
                                /\ \E j \in 1..Len(players[d][i].rounds) :
                                       players[d][i].rounds[j].id = round.id,
                 absent |-> AbsentPlayer(players[d], playerId),
                 changed |-> UpdatePlayerRound(players[d], playerId, round) # players[d]]))

\* GameView: confirmDeletePlayer
UserDeletePlayer(d, playerId) ==
    /\ ~ShowLoading(d) /\ view[d] = "GAME"
    /\ Apply(d, HandleUpdatePlayers(d, Cur(d), conns, RemovePlayer(players[d], playerId)),
             Op("UpdatePlayers", d, [wasClient |-> isClient[d]]))

\* GameView: onReset
UserResetGame(d) ==
    /\ ~ShowLoading(d) /\ view[d] = "GAME"
    /\ epoch[d] < MaxEpoch
    /\ Apply(d, HandleResetGame(d, Cur(d), conns),
             Op("ResetGame", d, [wasClient |-> isClient[d]]))

\* SetupView / GameView: onOpenSettings
UserOpenSettings(d) ==
    /\ ~ShowLoading(d) /\ view[d] \in {"SETUP", "GAME"}
    /\ Commit(d, [Cur(d) EXCEPT !.view = "SETTINGS"], conns, FALSE,
              Op("OpenSettings", d, <<>>))

\* GameView: onRequestScan (handleRequestScan)
UserRequestScan(d) ==
    /\ ~ShowLoading(d) /\ view[d] = "GAME"
    /\ Commit(d, [Cur(d) EXCEPT !.view = "SCAN"], conns, FALSE,
              Op("RequestScan", d, <<>>))

\* ScanView: onCancel (handleCancelScan)
UserCancelScan(d) ==
    /\ ~ShowLoading(d) /\ view[d] = "SCAN"
    /\ Commit(d, [Cur(d) EXCEPT !.view = "GAME"], conns, FALSE,
              Op("CancelScan", d, <<>>))

\* SettingsView: onSave
UserUpdateSettings(d, newSettings) ==
    /\ ~ShowLoading(d) /\ view[d] = "SETTINGS"
    /\ Apply(d, HandleUpdateSettings(d, Cur(d), conns, newSettings),
             Op("UpdateSettings", d, [wasClient |-> isClient[d]]))

\* ---------------------------------------------------------- specification
\* Every device has started with no persisted session: it is the host of its own,
\* fresh session, its endpoint is open and nobody is connected.
Init ==
    /\ peer = [d \in Devices |-> <<d, 0>>]
    /\ opening = [d \in Devices |-> <<>>]
    /\ orphans = [d \in Devices |-> {}]
    /\ connections = [d \in Devices |-> <<>>]
    /\ conns = [c \in ConnIds |-> FreeConn]
    /\ peerId = [d \in Devices |-> <<d, 0>>]
    /\ connectedPeers = [d \in Devices |-> 0]
    /\ isClient = [d \in Devices |-> FALSE]
    /\ isJoining = [d \in Devices |-> FALSE]
    /\ retryCount = [d \in Devices |-> 0]
    /\ hostEndedSession = [d \in Devices |-> FALSE]
    /\ joinCancelled = [d \in Devices |-> FALSE]
    /\ storedHost = [d \in Devices |-> NoId]
    /\ storedDevice = [d \in Devices |-> NoId]
    /\ players = [d \in Devices |-> <<>>]
    /\ settings = [d \in Devices |-> DEFAULT_SETTINGS]
    /\ view = [d \in Devices |-> "SETUP"]
    /\ epoch = [d \in Devices |-> 0]
    /\ started = [d \in Devices |-> TRUE]
    /\ boot = [d \in Devices |-> NoBoot]
    /\ endTimer = [d \in Devices |-> FALSE]
    /\ leftHost = [d \in Devices |-> NoId]
    /\ endedBy = [d \in Devices |-> NoId]
    /\ heartbeatInterval = [d \in Devices |-> TRUE]
    /\ mounted = [d \in Devices |-> TRUE]
    /\ destroyed = [d \in Devices |-> FALSE]
    /\ storedPlayers = [d \in Devices |-> <<>>]
    /\ storedSettings = [d \in Devices |-> DEFAULT_SETTINGS]
    /\ lastOp = Op("Init", NoDevice, <<>>)
    /\ nOps = 0

\* the data connections alive
Live == ConnIds \ FreeSlots(conns)

\* A session of the devices A and B whose connections stay up: they join each
\* other or a host that does not exist, and their users play.
Players == {"A", "B"}

Next ==
    \/ Cardinality(Live) < MaxLive /\ UserJoin("B", <<"A", 0>>)
    \/ <<"B", 0>> \in ConnectedPeerIds(conns, "A", connections["A"]) /\ UserJoin("A", <<"B", 0>>)
    \/ Cardinality(Live) < MaxLive /\ UserJoin("A", GhostId)
    \/ \E c \in ConnIds : DialerOpen(c)
    \/ \E c \in ConnIds : AcceptorOpen(c)
    \/ \E c \in ConnIds : DialFailed(c, "peer-unavailable")
    \/ \E d \in Players, c \in ConnIds : Deliver(d, c)
    \/ \E d \in Players, p \in PlayerIds : nOps < MaxOps /\ UserStartGame(d, <<Player(p)>>)
    \/ \E d \in Players, p \in PlayerIds, r \in Rounds :
            nOps < MaxOps /\ UserSaveRound(d, p, r)
    \/ \E d \in Players : UserOpenSettings(d)
    \/ \E d \in Players, se \in SettingsValues : nOps < MaxOps /\ UserUpdateSettings(d, se)

Spec == Init /\ [][Next]_vars

\* The session up to the start of the game, with the transport and the event loop
\* doing their part: a frame that has arrived is handled, a dial ends by opening or
\* failing.
NextSync ==
    \/ Cardinality(Live) < MaxLive /\ UserJoin("B", <<"A", 0>>)
    \/ <<"B", 0>> \in ConnectedPeerIds(conns, "A", connections["A"]) /\ UserJoin("A", <<"B", 0>>)
    \/ Cardinality(Live) < MaxLive /\ UserJoin("A", GhostId)
    \/ \E c \in ConnIds : DialerOpen(c)
    \/ \E c \in ConnIds : AcceptorOpen(c)
    \/ \E c \in ConnIds : DialFailed(c, "peer-unavailable")
    \/ \E d \in Players, c \in ConnIds : Deliver(d, c)
    \/ \E d \in Players, p \in PlayerIds : nOps < MaxOps /\ UserStartGame(d, <<Player(p)>>)

SpecFair ==
    /\ Init /\ [][NextSync]_vars
    /\ \A d \in Players, c \in ConnIds : WF_vars(Deliver(d, c))
    /\ \A c \in ConnIds : WF_vars(DialerOpen(c))
    /\ \A c \in ConnIds : WF_vars(AcceptorOpen(c))
    /\ \A c \in ConnIds : WF_vars(DialFailed(c, "peer-unavailable"))

\* One device on its own, the host of its session: the game state under the
\* user's actions.
NewPlayerLists ==
    {<<Player(p)>> : p \in PlayerIds} \cup {<<Player("p1"), Player("p2")>>}

NextRounds ==
    \/ \E np \in NewPlayerLists : UserStartGame("A", np)
    \/ \E p \in PlayerIds, r \in Rounds : UserSaveRound("A", p, r)
    \/ \E p \in PlayerIds : UserDeletePlayer("A", p)

SpecRounds == Init /\ [][NextRounds]_vars

\* Host A and client B in a game: B's requests travel while A removes players,
\* saves rounds and resets the game.
NextRace ==
    \/ Cardinality(Live) < MaxLive /\ UserJoin("B", <<"A", 0>>)
    \/ \E c \in ConnIds : DialerOpen(c)
    \/ \E c \in ConnIds : AcceptorOpen(c)
    \/ \E d \in Players, c \in ConnIds : ConnClosed(d, c)
    \/ \E d \in Players, c \in ConnIds : Deliver(d, c)
    \/ \E np \in NewPlayerLists : nOps < MaxOps /\ UserStartGame("A", np)
    \/ \E d \in Players, p \in PlayerIds, r \in {Round("r1", 10)} :
            nOps < MaxOps /\ UserSaveRound(d, p, r)
    \/ \E p \in PlayerIds : UserDeletePlayer("A", p)
    \/ \E d \in Players : UserResetGame(d)
    \/ \E i \in 1..MaxOpening : PeerOpen("A", i)

SpecRace == Init /\ [][NextRace]_vars

\* Device B joins, loses and regains the session of host A, or tries to join a
\* host that does not exist.  B has either started as the others, or its page is
\* loading with the identities of an earlier session persisted: it starts in CLIENT
\* role (useState(() => !!localStorage.getItem('snapscore_host_id'))) and its
\* endpoint is not open yet.  The endpoint opens before the user joins and before
\* the reconnection timer fires; SpecSlow has the start in which it does not.
InitJoin ==
    \E h \in {NoId, <<"A", 0>>, GhostId} :
        /\ peer = [d \in Devices |-> IF d = "B" /\ h # NoId THEN NoId ELSE <<d, 0>>]
        /\ opening = [d \in Devices |-> <<>>]
        /\ orphans = [d \in Devices |-> {}]
        /\ connections = [d \in Devices |-> <<>>]
        /\ conns = [c \in ConnIds |-> FreeConn]
        /\ peerId = [d \in Devices |-> IF d = "B" /\ h # NoId THEN NoId ELSE <<d, 0>>]
        /\ connectedPeers = [d \in Devices |-> 0]
        /\ isClient = [d \in Devices |-> d = "B" /\ h # NoId]
        /\ isJoining = [d \in Devices |-> FALSE]
        /\ retryCount = [d \in Devices |-> 0]
        /\ hostEndedSession = [d \in Devices |-> FALSE]
        /\ joinCancelled = [d \in Devices |-> FALSE]
        /\ storedHost = [d \in Devices |-> IF d = "B" THEN h ELSE NoId]
        /\ storedDevice = [d \in Devices |-> IF d = "B" /\ h # NoId THEN <<"B", 0>> ELSE NoId]
        /\ players = [d \in Devices |-> <<>>]
        /\ settings = [d \in Devices |-> DEFAULT_SETTINGS]
        /\ view = [d \in Devices |-> "SETUP"]
        /\ epoch = [d \in Devices |-> 0]
        /\ started = [d \in Devices |-> d # "B" \/ h = NoId]
        /\ boot = [d \in Devices |->
                      IF d = "B" /\ h # NoId
                      THEN [device |-> <<"B", 0>>, host |-> h, join |-> NoId] ELSE NoBoot]
        /\ endTimer = [d \in Devices |-> FALSE]
        /\ leftHost = [d \in Devices |-> NoId]
        /\ endedBy = [d \in Devices |-> NoId]
        /\ heartbeatInterval = [d \in Devices |-> TRUE]
        /\ mounted = [d \in Devices |-> TRUE]
        /\ destroyed = [d \in Devices |-> FALSE]
        /\ storedPlayers = [d \in Devices |-> <<>>]
        /\ storedSettings = [d \in Devices |-> DEFAULT_SETTINGS]
        /\ lastOp = Op("Init", NoDevice, <<>>)
        /\ nOps = 0

NextJoin ==
    \/ InitP2p("B")
    \/ \E t \in {<<"A", 0>>, GhostId} :
            peer["B"] # NoId /\ Cardinality(Live) < MaxLive /\ UserJoin("B", t)
    \/ peer["B"] # NoId /\ Cardinality(Live) < MaxLive /\ AutoReconnect("B")
    \/ HandleCancelJoin("B")
    \/ \E c \in ConnIds : DialerOpen(c)
    \/ \E c \in ConnIds : AcceptorOpen(c)
    \/ \E c \in ConnIds, k \in JoinFailKinds : DialFailed(c, k)
    \/ \E d \in {"A", "B"}, c \in ConnIds : ConnClosed(d, c)
    \/ \E d \in {"A", "B"}, c \in ConnIds : Deliver(d, c)

SpecJoin == InitJoin /\ [][NextJoin]_vars

\* The page of device B is loading: what an earlier session persisted, and the
\* join link of the page, vary.  A host identity is persisted only together with
\* the device identity (handleJoinGame stores both).
BootValues ==
    {[device |-> dv, host |-> h, join |-> jl] :
        dv \in {NoId, <<"B", 0>>}, h \in {NoId, <<"A", 0>>, GhostId}, jl \in {NoId, <<"A", 0>>}}

InitStart ==
    \E b \in {x \in BootValues : x.host # NoId => x.device # NoId} :
        /\ peer = [d \in Devices |-> IF d = "B" THEN NoId ELSE <<d, 0>>]
        /\ opening = [d \in Devices |-> <<>>]
        /\ orphans = [d \in Devices |-> {}]
        /\ connections = [d \in Devices |-> <<>>]
        /\ conns = [c \in ConnIds |-> FreeConn]
        /\ peerId = [d \in Devices |-> IF d = "B" THEN NoId ELSE <<d, 0>>]
        /\ connectedPeers = [d \in Devices |-> 0]
        /\ isClient = [d \in Devices |-> d = "B" /\ InitialIsClient(b.host)]
        /\ isJoining = [d \in Devices |-> FALSE]
        /\ retryCount = [d \in Devices |-> 0]
        /\ hostEndedSession = [d \in Devices |-> FALSE]
        /\ joinCancelled = [d \in Devices |-> FALSE]
        /\ storedHost = [d \in Devices |-> IF d = "B" THEN b.host ELSE NoId]
        /\ storedDevice = [d \in Devices |-> IF d = "B" THEN b.device ELSE NoId]
        /\ players = [d \in Devices |-> <<>>]
        /\ settings = [d \in Devices |-> DEFAULT_SETTINGS]
        /\ view = [d \in Devices |-> "SETUP"]
        /\ epoch = [d \in Devices |-> 0]
        /\ started = [d \in Devices |-> d # "B"]
        /\ boot = [d \in Devices |-> IF d = "B" THEN b ELSE NoBoot]
        /\ endTimer = [d \in Devices |-> FALSE]
        /\ leftHost = [d \in Devices |-> NoId]
        /\ endedBy = [d \in Devices |-> NoId]
        /\ heartbeatInterval = [d \in Devices |-> TRUE]
        /\ mounted = [d \in Devices |-> TRUE]
        /\ destroyed = [d \in Devices |-> FALSE]
        /\ storedPlayers = [d \in Devices |-> <<>>]
        /\ storedSettings = [d \in Devices |-> DEFAULT_SETTINGS]
        /\ lastOp = Op("Init", NoDevice, <<>>)
        /\ nOps = 0

SpecStart == InitStart /\ [][NextJoin]_vars

\* Device B joins the session of host A, loses and regains it, and leaves it: its
\* page reloads and starts again from what is persisted.
NextLeave ==
    \/ peer["B"] # NoId /\ Cardinality(Live) < MaxLive /\ UserJoin("B", <<"A", 0>>)
    \/ peer["B"] # NoId /\ Cardinality(Live) < MaxLive /\ AutoReconnect("B")
    \/ HandleLeaveGame("B")
    \/ InitP2p("B")
    \/ \E c \in ConnIds : DialerOpen(c)
    \/ \E c \in ConnIds : AcceptorOpen(c)
    \/ \E c \in ConnIds, k \in JoinFailKinds : DialFailed(c, k)
    \/ \E d \in {"A", "B"}, c \in ConnIds : ConnClosed(d, c)
    \/ \E d \in {"A", "B"}, c \in ConnIds : Deliver(d, c)

SpecLeave == Init /\ [][NextLeave]_vars

\* Device B, a client of host A, sends requests to its host, connected or not, while
\* its connection comes and goes.
ClientRequest == RequestSettingsUpdate("custom")

NextReq ==
    \/ Cardinality(Live) < MaxLive /\ UserJoin("B", <<"A", 0>>)
    \/ Cardinality(Live) < MaxLive /\ AutoReconnect("B")
    \/ Cardinality(Live) < MaxLive /\ SendToHostAction("B", ClientRequest)
    \/ \E c \in ConnIds : DialerOpen(c)
    \/ \E c \in ConnIds : AcceptorOpen(c)
    \/ \E c \in ConnIds, k \in JoinFailKinds : DialFailed(c, k)
    \/ \E d \in {"A", "B"}, c \in ConnIds : ConnClosed(d, c)
    \/ \E d \in {"A", "B"}, c \in ConnIds : Deliver(d, c)

SpecReq == Init /\ [][NextReq]_vars

\* Host A and client B go from view to view, the scanning view among them, while A
\* starts the game and the settings change.
NextView ==
    \/ Cardinality(Live) < MaxLive /\ UserJoin("B", <<"A", 0>>)
    \/ \E c \in ConnIds : DialerOpen(c)
    \/ \E c \in ConnIds : AcceptorOpen(c)
    \/ \E d \in Players, c \in ConnIds : ConnClosed(d, c)
    \/ \E d \in Players, c \in ConnIds : Deliver(d, c)
    \/ nOps < MaxOps /\ UserStartGame("A", <<Player("p1")>>)
    \/ \E d \in Players : UserOpenSettings(d)
    \/ \E d \in Players, se \in SettingsValues : nOps < MaxOps /\ UserUpdateSettings(d, se)
    \/ \E d \in Players : UserRequestScan(d)
    \/ \E d \in Players : UserCancelScan(d)

SpecView == Init /\ [][NextView]_vars

\* Host A and client B with the heartbeat of each service running; A may end its
\* session, which destroys its endpoint and creates a new one, and B may join A
\* under either identity.
NextBeat ==
    \/ \E e \in 0..MaxEpoch : Cardinality(Live) < MaxLive /\ UserJoin("B", <<"A", e>>)
    \/ \E c \in ConnIds : DialerOpen(c)
    \/ \E c \in ConnIds : AcceptorOpen(c)
    \/ \E c \in ConnIds : DialFailed(c, "peer-unavailable")
    \/ \E d \in Players, c \in ConnIds : ConnClosed(d, c)
    \/ \E d \in Players, c \in ConnIds : Deliver(d, c)
    \/ \E d \in Players : HeartbeatTick(d)
    \/ nOps < MaxOps /\ UserStartGame("A", <<Player("p1")>>)
    \/ HandleHostEndSession("A")
    \/ EndSessionTimer("A")
    \/ \E i \in 1..MaxOpening : PeerOpen("A", i)

SpecBeat == Init /\ [][NextBeat]_vars

\* The start of device B with any stored identities, the signalling server
\* accepting or rejecting the preferred one.
NextId ==
    \/ InitP2p("B")
    \/ InitP2pUnavailable("B")
    \/ \E c \in ConnIds : DialerOpen(c)
    \/ \E c \in ConnIds : AcceptorOpen(c)
    \/ \E c \in ConnIds, k \in JoinFailKinds : DialFailed(c, k)
    \/ \E d \in {"A", "B"}, c \in ConnIds : ConnClosed(d, c)
    \/ \E d \in {"A", "B"}, c \in ConnIds : Deliver(d, c)
    \/ Cardinality(Live) < MaxLive /\ AutoReconnect("B")

SpecId == InitStart /\ [][NextId]_vars

\* Host A and client B, either of which may be unmounted at any moment: with a
\* connection open, a dial in flight, the reconnection timer armed, or the timer
\* of handleHostEndSession pending.
NextDown ==
    \/ \E e \in 0..MaxEpoch : Cardinality(Live) < MaxLive /\ UserJoin("B", <<"A", e>>)
    \/ \E c \in ConnIds : DialerOpen(c)
    \/ \E c \in ConnIds : AcceptorOpen(c)
    \/ \E c \in ConnIds, k \in {"peer-unavailable", "timeout"} : DialFailed(c, k)
    \/ \E d \in Players, c \in ConnIds : ConnClosed(d, c)
    \/ \E d \in Players, c \in ConnIds : Deliver(d, c)
    \/ \E d \in Players : HeartbeatTick(d)
    \/ Cardinality(Live) < MaxLive /\ AutoReconnect("B")
    \/ HandleHostEndSession("A")
    \/ EndSessionTimer("A")
    \/ \E i \in 1..MaxOpening : PeerOpen("A", i)
    \/ \E d \in Players : Unmount(d)

SpecDown == Init /\ [][NextDown]_vars

\* A slow start of device B: the endpoint that initP2p asked for may open later
\* than the reconnection timer fires, so that connect() finds no endpoint and
\* creates one of its own.
NextSlow ==
    \/ InitP2p("B")
    \/ PollConnections("B")
    \/ Cardinality(Live) < MaxLive /\ AutoReconnect("B")
    \/ \E i \in 1..MaxOpening : PeerOpen("B", i)
    \/ \E c \in ConnIds : DialerOpen(c)
    \/ \E c \in ConnIds : AcceptorOpen(c)
    \/ \E c \in ConnIds, k \in JoinFailKinds : DialFailed(c, k)
    \/ \E d \in {"A", "B"}, c \in ConnIds : ConnClosed(d, c)
    \/ \E d \in {"A", "B"}, c \in ConnIds : Deliver(d, c)

SpecSlow == InitJoin /\ [][NextSlow]_vars

\* The slow start of device B with the endpoints that may fail: the 10 s timer of
\* _connectToHost fires when it is due, and an endpoint that can still open does
\* open.
NextSettle ==
    \/ InitP2p("B")
    \/ PollConnections("B")
    \/ Cardinality(Live) < MaxLive /\ AutoReconnect("B")
    \/ \E i \in 1..MaxOpening : PeerOpen("B", i)
    \/ \E i \in 1..MaxOpening : PeerError("B", i)
    \/ \E c \in ConnIds : DialerOpen(c)
    \/ \E c \in ConnIds : AcceptorOpen(c)
    \/ \E c \in ConnIds, k \in JoinFailKinds : DialFailed(c, k)
    \/ \E d \in {"A", "B"}, c \in ConnIds : ConnClosed(d, c)

SpecSettle ==
    /\ InitJoin /\ [][NextSettle]_vars
    /\ \A c \in ConnIds : WF_vars(DialFailed(c, "timeout"))
    /\ \A i \in 1..MaxOpening : WF_vars(PeerOpen("B", i))

\* The registry of device A under connection churn.  B and C are remote peers
\* whose own program is not run here: they dial A (peer.on('connection') at A), A
\* dials B, connections open, fail and close, frames sent to B leave the
\* connection, and A destroys its endpoint when it resets the game.
RemotePeers == {"B", "C"}

\* a remote peer dials A's endpoint; its end takes no frames
RemoteDial(x) ==
    /\ peer["A"] # NoId
    /\ FreeSlots(conns) # {}
    /\ conns' = [conns EXCEPT ![NextSlot(conns)] =
                    [NewConn(x, peer[x], peer["A"], "A", FALSE) EXCEPT !.dSt = "abandoned"]]
    /\ lastOp' = Op("RemoteDial", x, <<>>)
    /\ UNCHANGED <<peer, opening, orphans, connections, connectedPeers, heartbeatInterval,
                 mounted, destroyed,
                 hookVars, gameVars,
                   epoch, started, nOps>>

\* a frame A sent on a connection it dialled reaches the remote peer
RemoteTakes(c) ==
    /\ conns[c].dialer = "A" /\ conns[c].toA # <<>>
    /\ conns' = [conns EXCEPT ![c].toA = Tail(@)]
    /\ lastOp' = Op("RemoteTakes", conns[c].acceptor, <<>>)
    /\ UNCHANGED <<peer, opening, orphans, connections, connectedPeers, heartbeatInterval,
                 mounted, destroyed,
                 hookVars, gameVars,
                   epoch, started, nOps>>

NextReg ==
    \/ \E x \in RemotePeers : RemoteDial(x)
    \/ \E c \in ConnIds : RemoteTakes(c)
    \/ UserJoin("A", <<"B", 0>>)
    \/ \E c \in ConnIds : DialerOpen(c)
    \/ \E c \in ConnIds : conns[c].acceptor = "A" /\ AcceptorOpen(c)
    \/ \E c \in ConnIds, k \in {"error", "timeout"} : DialFailed(c, k)
    \/ \E d \in Devices, c \in ConnIds : ConnClosed(d, c)
    \/ UserStartGame("A", <<Player("p1")>>)
    \/ UserResetGame("A")
    \/ \E i \in 1..MaxOpening : PeerOpen("A", i)

SpecReg == Init /\ [][NextReg]_vars

\* Device A is a client of the remote host B while the remote peer C dials A: the
\* connection to the host is lost and regained.
NextLost ==
    \/ RemoteDial("C")
    \/ UserJoin("A", <<"B", 0>>)
    \/ AutoReconnect("A")
    \/ \E c \in ConnIds : DialerOpen(c)
    \/ \E c \in ConnIds : conns[c].acceptor = "A" /\ AcceptorOpen(c)
    \/ \E c \in ConnIds, k \in {"error", "timeout"} : DialFailed(c, k)
    \/ \E d \in Devices, c \in ConnIds : ConnClosed(d, c)

SpecLost == Init /\ [][NextLost]_vars

\* Host A ends the session that client B has joined: the announcement travels to
\* B while A's timer runs, then A's endpoint goes away and comes back with a new
\* identity, and B's reconnection loop does what it does.
NextEnd ==
    \/ Cardinality(Live) < MaxLive /\ UserJoin("B", <<"A", 0>>)
    \/ \E c \in ConnIds : DialerOpen(c)
    \/ \E c \in ConnIds : AcceptorOpen(c)
    \/ \E c \in ConnIds : DialFailed(c, "peer-unavailable")
    \/ \E d \in Players, c \in ConnIds : ConnClosed(d, c)
    \/ \E d \in Players, c \in ConnIds : Deliver(d, c)
    \/ UserStartGame("A", <<Player("p1")>>)
    \/ HandleHostEndSession("A")
    \/ EndSessionTimer("A")
    \/ \E i \in 1..MaxOpening : PeerOpen("A", i)
    \/ Cardinality(Live) < MaxLive /\ AutoReconnect("B")

SpecEnd == Init /\ [][NextEnd]_vars

\* ================================================================ properties

\* ---- C1: the registry of a P2PService never holds two connections with the
\* same remote peer identity, whatever incoming connections, outgoing connects,
\* closes and destroy() it has gone through.
RegistryPeersDistinct ==
    \A d \in Devices : \A i, j \in 1..Len(connections[d]) :
        i # j => PeerOf(conns, d, connections[d][i]) # PeerOf(conns, d, connections[d][j])

\* a second connection of a peer has just replaced the stale one, next to a
\* connection of another peer
RegistryReplacedStale ==
    /\ lastOp.op \in {"Incoming", "JoinResolved"} /\ lastOp.dev = "A"
    /\ lastOp.arg.replaced
    /\ Len(connections["A"]) = 2

\* ---- C6: idempotence of SAVE_ROUND: on every host snapshot, for every player id
\* and round, saving the same round twice gives the snapshot of saving it once.
SaveRoundIdempotent ==
    \A p \in PlayerIds, r \in Rounds :
        LET once == UpdatePlayerRound(players["A"], p, r)
        IN UpdatePlayerRound(once, p, r) = once

\* the user has saved again a round the player already holds, with the same payload
SaveRoundRepeated ==
    /\ lastOp.op = "SaveRound" /\ ~lastOp.arg.wasClient
    /\ lastOp.arg.existed /\ ~lastOp.arg.changed

\* the player `p` of snapshot `pl` holds a round of id `id`
HasRound(pl, p, id) ==
    \E i \in 1..Len(pl) : pl[i].id = p /\ \E j \in 1..Len(pl[i].rounds) : pl[i].rounds[j].id = id

HasPlayer(pl, p) == \E i \in 1..Len(pl) : pl[i].id = p

\* two snapshots with the same players in the same order, each with the same rounds
\* in some order
SameUpToRoundOrder(x, y) ==
    /\ Len(x) = Len(y)
    /\ \A i \in 1..Len(x) :
        /\ [x[i] EXCEPT !.rounds = <<>>] = [y[i] EXCEPT !.rounds = <<>>]
        /\ Len(x[i].rounds) = Len(y[i].rounds)
        /\ SeqRange(x[i].rounds) = SeqRange(y[i].rounds)

\* ---- C7, as stated: on every host snapshot, two round-saves with distinct round
\* ids, for the same or for different players, give the same snapshot in either
\* order of application.
SaveRoundCommutes ==
    \A p1, p2 \in PlayerIds, r1, r2 \in Rounds :
        r1.id # r2.id =>
            UpdatePlayerRound(UpdatePlayerRound(players["A"], p1, r1), p2, r2)
                = UpdatePlayerRound(UpdatePlayerRound(players["A"], p2, r2), p1, r1)

\* ---- C7, amended: two round-saves with distinct round ids give the same snapshot
\* in either order when they are for different players or when the player already
\* holds a round of one of the two ids; two rounds that are both new to the same
\* player are both recorded, after the rounds the player had, in the order of
\* application, so the two snapshots hold the same rounds and differ in their order.
SaveRoundCommutesUpToOrder ==
    \A p1, p2 \in PlayerIds, r1, r2 \in Rounds :
        r1.id # r2.id =>
            LET pl == players["A"]
                ab == UpdatePlayerRound(UpdatePlayerRound(pl, p1, r1), p2, r2)
                ba == UpdatePlayerRound(UpdatePlayerRound(pl, p2, r2), p1, r1)
                bothNew == /\ p1 = p2 /\ HasPlayer(pl, p1)
                           /\ ~HasRound(pl, p1, r1.id) /\ ~HasRound(pl, p1, r2.id)
            IN /\ SameUpToRoundOrder(ab, ba)
               /\ ~bothNew => ab = ba
               /\ bothNew =>
                    \A i \in 1..Len(pl) : pl[i].id = p1 =>
                        /\ ab[i].rounds = pl[i].rounds \o <<r1, r2>>
                        /\ ba[i].rounds = pl[i].rounds \o <<r2, r1>>

\* the user has saved a second round, of another id, for a player
SaveRoundSecondId ==
    /\ lastOp.op = "SaveRound" /\ ~lastOp.arg.wasClient
    /\ ~lastOp.arg.existed /\ lastOp.arg.changed
    /\ \E i \in 1..Len(players["A"]) : Len(players["A"][i].rounds) = 2

\* ---- C8: last applied wins: after two round-saves of the same round id for a
\* player, the player holds exactly one round of that id, it is the round of the
\* second save, and the second save left the number of the player's rounds as it was.
SaveRoundLastWins ==
    \A p \in PlayerIds, r1, r2 \in Rounds :
        r1.id = r2.id =>
            LET first == UpdatePlayerRound(players["A"], p, r1)
                second == UpdatePlayerRound(first, p, r2)
            IN \A i \in 1..Len(second) :
                second[i].id = p =>
                    /\ Cardinality({j \in 1..Len(second[i].rounds) :
                                        second[i].rounds[j].id = r2.id}) = 1
                    /\ \A j \in 1..Len(second[i].rounds) :
                            second[i].rounds[j].id = r2.id => second[i].rounds[j] = r2
                    /\ Len(second[i].rounds) = Len(first[i].rounds)

\* the user has saved a round the player already holds, with another score
SaveRoundOverwrote ==
    /\ lastOp.op = "SaveRound" /\ ~lastOp.arg.wasClient
    /\ lastOp.arg.existed /\ lastOp.arg.changed

\* this step starts a connection attempt of device d: a dial of d appears
DialStarted(d) ==
    \E c \in ConnIds :
        /\ conns'[c].dialer = d /\ conns'[c].dSt = "pending"
        /\ ~(conns[c].dialer = d /\ conns[c].dSt = "pending")

\* this step starts a connection attempt of device d: handleJoinGame is called and
\* gets past its already-connected guard, or a connection is dialled.  The dial that
\* connect() makes once the endpoint it was waiting for has opened belongs to the
\* attempt that called connect().
AttemptStarted(d) ==
    \/ lastOp'.dev = d /\ lastOp'.op = "JoinStart" /\ lastOp' # lastOp
    \/ DialStarted(d) /\ lastOp'.op # "Dial"

\* this step is an action of the user of device d: on the join dialog or the
\* loading screen, or a request to the host that has to reconnect first
UserJoinStep(d) ==
    /\ lastOp'.dev = d
    /\ \/ lastOp'.op = "CancelJoin"
       \/ /\ lastOp'.op \in {"JoinStart", "JoinAlready"}
          /\ lastOp'.arg.cause \in {"user", "request"}

\* this step is the join that initP2p makes when the page of device d is mounted (the
\* rejoin of the persisted host, or the join of the link's host): it is not a turn
\* of the auto-reconnect loop
MountJoinStep(d) ==
    /\ lastOp'.dev = d
    /\ lastOp'.op \in {"JoinStart", "JoinAlready"}
    /\ lastOp'.arg.cause \in {"startup", "link"}

\* ---- C4: reconnection ceiling: once the retry counter of a device has reached
\* MAX_RETRIES, no step starts a connection attempt of the device unless the step
\* is an action of its user or the mounting of its page.
ReconnectCeiling ==
    [][\A d \in Devices :
        (retryCount[d] >= MAX_RETRIES /\ ~UserJoinStep(d) /\ ~MountJoinStep(d))
        => ~AttemptStarted(d)]_vars

\* a client with a persisted host and no connection whose MAX_RETRIES-th silent
\* attempt has just failed
CeilingReached ==
    /\ lastOp.op = "JoinRejected" /\ lastOp.dev = "B" /\ lastOp.arg.silent
    /\ retryCount["B"] = MAX_RETRIES
    /\ isClient["B"] /\ storedHost["B"] # NoId /\ connectedPeers["B"] = 0

\* this step is the failure of a join attempt with the peer-unavailable signal
PeerUnavailableStep ==
    lastOp'.op = "JoinRejected" /\ lastOp'.arg.kind = "peer-unavailable"

\* after this step the Auto-Reconnect effect of device d arms no timer
NotArmedAfter(d) ==
    ~(/\ isClient'[d] /\ ~hostEndedSession'[d] /\ connectedPeers'[d] = 0
      /\ storedHost'[d] # NoId /\ retryCount'[d] < MAX_RETRIES)

ScenarioC ==
    [][\A d \in Devices :
        /\ (lastOp'.op = "ConnClosed" /\ lastOp'.dev = d /\ lastOp'.arg.hostLost) =>
                /\ isClient'[d] /\ ~hostEndedSession'[d] /\ storedHost'[d] = storedHost[d]
                /\ retryCount'[d] < MAX_RETRIES
                /\ connectedPeers'[d] = 0
                /\ ~isJoining'[d] /\ Len(connections'[d]) = 0
        /\ (lastOp'.op = "JoinStart" /\ lastOp'.dev = d /\ lastOp'.arg.cause = "timer") =>
                /\ lastOp'.arg.silent /\ lastOp'.arg.target = storedHost[d]
                /\ conns'[lastOp'.arg.conn].target = storedHost[d]
                /\ conns'[lastOp'.arg.conn].dSt = "pending"
        /\ (lastOp'.op = "JoinResolved" /\ lastOp'.dev = d /\ ~lastOp'.arg.cancelled) =>
                /\ retryCount'[d] = 0 /\ isClient'[d]
                /\ lastOp'.arg.target \in ConnectedPeerIds(conns', d, connections'[d])]_vars

\* the frame the step that has just run took from its connection
Received == Head(Inbox(conns, lastOp'.dev, lastOp'.arg.conn))

\* the frames d has sent on c that are still on their way
Outbox(tbl, d, c) == IF IsDialer(tbl, d, c) THEN tbl[c].toA ELSE tbl[c].toD

\* ---- C2: a device in CLIENT role changes its players or its settings only by
\* replacing both with the payload of a SYNC_STATE it receives; user actions and
\* received REQUEST_* messages leave them as they are.
ClientOnlyMirrors ==
    [][\A d \in Devices :
        (isClient[d] /\ (players'[d] # players[d] \/ settings'[d] # settings[d])) =>
            /\ lastOp'.op = "SYNC_STATE" /\ lastOp'.dev = d
            /\ players'[d] = Received.payload.players
            /\ settings'[d] = Received.payload.settings]_vars

\* ---- C9: ADD_PLAYERS: a host that receives REQUEST_ADD_PLAYERS has its previous
\* players followed by the requested ones, its settings as they were, and its new
\* snapshot on its way to the sender as the last SYNC_STATE sent; a device that
\* receives a SYNC_STATE has the players and settings of that snapshot.
AddPlayersAtHost ==
    [][/\ (lastOp'.op = "REQUEST_ADD_PLAYERS" /\ ~lastOp'.arg.wasClient) =>
            LET d == lastOp'.dev
                c == lastOp'.arg.conn
                out == Outbox(conns', d, c)
            IN /\ players'[d] = players[d] \o Received.payload
               /\ settings'[d] = settings[d]
               /\ FarEndListens(conns', d, c) =>
                    /\ out # <<>>
                    /\ out[Len(out)] = SyncState(players'[d], settings'[d], view'[d])
       /\ lastOp'.op = "SYNC_STATE" =>
            LET d == lastOp'.dev
            IN /\ players'[d] = Received.payload.players
               /\ settings'[d] = Received.payload.settings]_vars

\* client B has received the snapshot host A made of the players B asked for
AddPlayersSynced ==
    /\ lastOp.op = "SYNC_STATE" /\ lastOp.dev = "B" /\ lastOp.arg.from = <<"A", 0>>
    /\ ~isClient["A"] /\ isClient["B"]
    /\ view["A"] = "SETUP" /\ Len(players["A"]) = 2
    /\ players["B"] = players["A"] /\ settings["B"] = settings["A"]

\* h is in HOST role, c in CLIENT role and a connection between them is registered
\* and open at both ends
Linked(h, c) ==
    /\ ~isClient[h] /\ isClient[c]
    /\ \E k \in ConnIds :
        /\ k \in SeqRange(connections[h]) /\ k \in SeqRange(connections[c])
        /\ conns[k].dSt = "open" /\ conns[k].aSt = "open"

\* ---- C3: eventual consistency: if from some point on a host and a client stay
\* connected (and the host's snapshot stops changing, as it does in every
\* behaviour of the session), then from some point on the client's players and
\* settings are the host's.
EventuallyConsistent ==
    \A h \in Players, c \in Players :
        <>[]Linked(h, c) => <>[](players[c] = players[h] /\ settings[c] = settings[h])

\* ---- C11: Scenario D.  When the host ends the session, every client that
\* receives the session-ended message leaves CLIENT role and becomes the host of a
\* fresh session: its persisted host identity is cleared and its snapshot is
\* cleared.
ScenarioD ==
    [][(lastOp'.op = "GAME_ENDED" /\ lastOp'.arg.wasClient)
        => LET d == lastOp'.dev
           IN /\ ~isClient'[d]
              /\ storedHost'[d] = NoId
              /\ players'[d] = <<>>]_vars

\* ---- C12: receiving a SYNC_STATE puts the receiving device in CLIENT role
\* unconditionally, whatever its role, its connections and its persisted state
\* were before.
SyncForcesClient ==
    [][lastOp'.op = "SYNC_STATE" => isClient'[lastOp'.dev]]_vars

\* a device that was not in CLIENT role and has no persisted host has received a
\* SYNC_STATE
SyncReceivedAsHost ==
    /\ lastOp.op = "SYNC_STATE"
    /\ ~lastOp.arg.wasClient
    /\ storedHost[lastOp.dev] = NoId
    /\ isClient[lastOp.dev]

JoinSuccessPersists ==
    [][(lastOp'.op = "JoinResolved" /\ ~lastOp'.arg.cancelled)
        => LET d == lastOp'.dev
           IN /\ isClient'[d]
              /\ storedHost'[d] = lastOp'.arg.target
              /\ peer'[d] # NoId /\ storedDevice'[d] = peer'[d]
              /\ retryCount'[d] = 0]_vars

\* this step is the failure of a silent join attempt for a reason other than
\* peer-unavailable (the 10 s timeout, an error of the connection)
SilentTransientFailStep ==
    /\ lastOp'.op = "JoinRejected" /\ lastOp'.arg.silent
    /\ lastOp'.arg.kind # "peer-unavailable"

\* ---- C15, as stated: a silent attempt that fails for a reason other than
\* peer-unavailable increments the retry counter by exactly one, keeps the persisted
\* host identity and the role, and alerts nobody.
SilentFailureCounts ==
    [][SilentTransientFailStep =>
        LET d == lastOp'.dev
        IN /\ retryCount'[d] = retryCount[d] + 1
           /\ storedHost'[d] = storedHost[d] /\ isClient'[d] = isClient[d]
           /\ ~lastOp'.arg.alert]_vars

\* ---- C15, amended: a silent attempt that fails for a reason other than
\* peer-unavailable while the cancel flag is not set increments the retry counter by
\* exactly one, ends the join in progress, keeps the persisted host identity and the
\* role, and alerts nobody; when the cancel flag is set the failure changes
\* nothing, the retry counter included, and alerts nobody.
SilentFailureCountsUnlessCancelled ==
    [][SilentTransientFailStep =>
        LET d == lastOp'.dev
        IN /\ storedHost'[d] = storedHost[d] /\ isClient'[d] = isClient[d]
           /\ ~lastOp'.arg.alert
           /\ IF joinCancelled[d]
              THEN retryCount'[d] = retryCount[d] /\ isJoining'[d] = isJoining[d]
              ELSE retryCount'[d] = retryCount[d] + 1 /\ ~isJoining'[d]]_vars

\* a silent attempt of a client on its persisted host has just timed out, the cancel
\* flag not set: the retry counter was incremented and the device is still a client
\* of that host
SilentTimeoutCounted ==
    /\ lastOp.op = "JoinRejected" /\ lastOp.arg.kind = "timeout"
    /\ lastOp.arg.silent /\ ~lastOp.arg.cancelled
    /\ isClient[lastOp.dev] /\ storedHost[lastOp.dev] = lastOp.arg.target
    /\ retryCount[lastOp.dev] > 0

\* this step is the failure of a join attempt that the user started (not silent)
LoudFailStep ==
    lastOp'.op = "JoinRejected" /\ ~lastOp'.arg.silent

\* ---- C16, as stated: a join that the user started and that fails alerts the user
\* and is not retried: after the failure the device is not in CLIENT role, no host
\* identity is persisted, the retry counter was not incremented and the
\* Auto-Reconnect effect arms no timer.
LoudFailureSurfaces ==
    [][LoudFailStep =>
        LET d == lastOp'.dev
        IN /\ lastOp'.arg.alert
           /\ ~isClient'[d] /\ storedHost'[d] = NoId
           /\ retryCount'[d] <= retryCount[d] /\ NotArmedAfter(d)]_vars

\* ---- C16, amended: a join that the user started and that fails while the cancel
\* flag is not set alerts the user and is not retried: after the failure the device is
\* not in CLIENT role, no host identity is persisted, no join is in progress, the
\* retry counter was not incremented and the Auto-Reconnect effect arms no timer; when
\* the cancel flag is set the failure alerts nobody and changes nothing.
LoudFailureSurfacesUnlessCancelled ==
    [][LoudFailStep =>
        LET d == lastOp'.dev
        IN /\ retryCount'[d] <= retryCount[d]
           /\ IF joinCancelled[d]
              THEN /\ ~lastOp'.arg.alert
                   /\ isClient'[d] = isClient[d] /\ storedHost'[d] = storedHost[d]
                   /\ retryCount'[d] = retryCount[d] /\ isJoining'[d] = isJoining[d]
              ELSE /\ lastOp'.arg.alert
                   /\ ~isClient'[d] /\ storedHost'[d] = NoId /\ ~isJoining'[d]
                   /\ NotArmedAfter(d)]_vars

\* a join that the user started has just timed out, the cancel flag not set: the
\* user was alerted and the device is out of CLIENT role with no persisted host
LoudTimeoutAlerted ==
    /\ lastOp.op = "JoinRejected" /\ lastOp.arg.kind = "timeout"
    /\ ~lastOp.arg.silent /\ ~lastOp.arg.cancelled /\ lastOp.arg.alert
    /\ ~isClient[lastOp.dev] /\ storedHost[lastOp.dev] = NoId

\* this step is the completion, success or failure, of a join attempt of device d
\* that was in flight when its user cancelled the join
CutAttemptCompletes(d) ==
    /\ lastOp'.dev = d /\ lastOp'.op \in {"JoinResolved", "JoinRejected"}
    /\ lastOp'.arg.cut

\* ---- C17: cancel join.  handleCancelJoin clears the persisted host identity and
\* leaves the Auto-Reconnect effect with no timer armed, and the completion of every
\* attempt that was in flight at the time of the cancel changes neither role,
\* persisted host identity nor retry counter, whether or not another join was
\* started in between.
CancelIgnoresInFlight ==
    [][\A d \in Devices :
        /\ (lastOp'.op = "CancelJoin" /\ lastOp'.dev = d)
            => storedHost'[d] = NoId /\ NotArmedAfter(d)
        /\ CutAttemptCompletes(d)
            => /\ isClient'[d] = isClient[d] /\ storedHost'[d] = storedHost[d]
               /\ retryCount'[d] = retryCount[d]]_vars

\* this step leaves a dial of device d to host h pending that was not, or makes d
\* wait for an endpoint in order to dial h
NewAttemptOn(d, h) ==
    \/ \E c \in ConnIds :
        /\ conns'[c].dialer = d /\ conns'[c].dSt = "pending" /\ conns'[c].target = h
        /\ ~(conns[c].dialer = d /\ conns[c].dSt = "pending" /\ conns[c].target = h)
    \/ /\ Len(opening'[d]) > 0
       /\ opening'[d][Len(opening'[d])].kind = "connect"
       /\ opening'[d][Len(opening'[d])].target = h
       /\ opening'[d] # opening[d] /\ Len(opening'[d]) > Len(opening[d])

\* ---- C18: leave.  handleLeaveGame removes the persisted host identity, and the
\* page that the reload mounts is not in CLIENT role, has read no host identity and
\* has no attempt in flight; from then on, until the user joins a host again, no step
\* starts a connection attempt of the device on the host it left.
LeaveIsFinal ==
    [][\A d \in Devices :
        /\ (lastOp'.op = "LeaveGame" /\ lastOp'.dev = d)
            => /\ storedHost'[d] = NoId /\ ~isClient'[d] /\ boot'[d].host = NoId
               /\ leftHost'[d] = storedHost[d]
               /\ opening'[d] = <<>>
               /\ \A c \in ConnIds : conns'[c].dialer = d => conns'[c].dSt = "closed"
               /\ NotArmedAfter(d)
        /\ (leftHost[d] # NoId /\ ~UserJoinStep(d) /\ ~(lastOp'.op = "LeaveGame"))
            => /\ ~NewAttemptOn(d, leftHost[d])
               /\ storedHost'[d] # leftHost[d]]_vars

\* the page of a device that left its host has reloaded and opened its endpoint
\* again, as a host with no connection and no attempt in flight
LeftAndReloaded ==
    /\ lastOp.op = "InitP2p" /\ leftHost[lastOp.dev] = <<"A", 0>>
    /\ ~isClient[lastOp.dev] /\ storedHost[lastOp.dev] = NoId
    /\ peer[lastOp.dev] # NoId /\ connectedPeers[lastOp.dev] = 0

\* the connections on which this step sends msg from device d
SentOn(d, msg) ==
    {c \in ConnIds : /\ conns[c].dialer # NoDevice /\ conns'[c].dialer = conns[c].dialer
                     /\ Outbox(conns', d, c) = Append(Outbox(conns, d, c), msg)}

\* this step sends no request from device d
NoRequestSent(d) ==
    \A c \in ConnIds :
        \A i \in 1..Len(Outbox(conns', d, c)) :
            Outbox(conns', d, c)[i] = ClientRequest
            => /\ conns'[c].dialer = conns[c].dialer
               /\ i <= Len(Outbox(conns, d, c))
               /\ Len(Outbox(conns', d, c)) <= Len(Outbox(conns, d, c))

\* the requests of device d that wait for a connection attempt to complete
WaitingRequests(tbl, calls, d) ==
    Cardinality({c \in ConnIds : tbl[c].dialer = d /\ tbl[c].req # NoMsg})
    + Cardinality({i \in 1..Len(calls[d]) : calls[d][i].req # NoMsg})

\* by how much this step changes the number of waiting requests of device d
WaitingChange(d) ==
    WaitingRequests(conns', opening', d) - WaitingRequests(conns, opening, d)

HostConnsAfter(d, h) ==
    {c \in ConnIds : /\ \E i \in 1..Len(connections'[d]) : connections'[d][i] = c
                     /\ PeerOf(conns', d, c) = h}

JoinCallStep(d) ==
    lastOp'.dev = d /\ lastOp'.op \in {"JoinStart", "JoinAlready"}

\* an open connection of device d with peer h is registered
OpenRegistered(d, h) ==
    \E i \in 1..Len(connections[d]) :
        /\ PeerOf(conns, d, connections[d][i]) = h
        /\ EndOpen(conns, d, connections[d][i])

\* ---- C20: a connection attempt on a peer of which an open connection is registered
\* when it is made is a no-op: no connection and no endpoint is created, no
\* connection is closed, and the registry stays as it is.
ConnectAlreadyNoOp ==
    [][\A d \in Devices :
        (JoinCallStep(d) /\ OpenRegistered(d, lastOp'.arg.target))
        => /\ conns' = conns /\ connections' = connections
           /\ Len(opening'[d]) <= Len(opening[d])
           /\ connectedPeers' = connectedPeers]_vars

\* a connected client has joined its host again: the one connection is still
\* registered and open
JoinedAgain ==
    /\ lastOp.op = "JoinAlready" /\ lastOp.dev = "B"
    /\ OpenRegistered("B", lastOp.arg.target)
    /\ Len(connections["B"]) = 1

\* ---- C21: a client that has received the session-ended message of its host
\* starts no silent connection attempt on that host afterwards, until its user joins
\* a host again.
NoReconnectAfterEnd ==
    [][\A d \in Devices :
        (endedBy[d] # NoId /\ lastOp'.dev = d /\ lastOp'.op = "JoinStart"
            /\ lastOp'.arg.silent)
        => lastOp'.arg.target # endedBy[d]]_vars

\* this step sends a frame from device d on connection c
SendsOn(d, c) ==
    /\ conns'[c].dialer # NoDevice
    /\ conns[c].dialer = NoDevice \/ conns'[c].dialer = conns[c].dialer
    /\ Len(Outbox(conns', d, c))
        = (IF conns[c].dialer = NoDevice THEN 0 ELSE Len(Outbox(conns, d, c))) + 1

\* the frame sent last from device d on connection c, after this step
LastSent(d, c) == Outbox(conns', d, c)[Len(Outbox(conns', d, c))]

\* the snapshot of device d after this step, as the Broadcast State effect frames
\* it: the scanning view is sent as the game view
SnapshotSent(d) ==
    [type |-> "SYNC_STATE",
     payload |-> [players |-> players'[d], settings |-> settings'[d],
                  view |-> IF view'[d] = "SCAN" THEN "GAME" ELSE view'[d]]]

\* ---- C22: broadcast rule.  A step sends a SYNC_STATE from a device only when the
\* device is in HOST role and on a registered connection; and a step that changes
\* the players, the settings or the view of a device in HOST role with a registered
\* connection sends its new snapshot on every registered connection that is open.
BroadcastRule ==
    [][\A d \in Devices :
        /\ \A c \in ConnIds :
            (/\ d \in {conns'[c].dialer, conns'[c].acceptor}
             /\ SendsOn(d, c) /\ LastSent(d, c).type = "SYNC_STATE")
            => /\ ~isClient'[d] /\ connectedPeers'[d] > 0
               /\ \E i \in 1..Len(connections'[d]) : connections'[d][i] = c
        /\ (/\ ~isClient'[d] /\ Len(connections'[d]) > 0
            /\ \/ players'[d] # players[d]
               \/ settings'[d] # settings[d]
               \/ view'[d] # view[d])
            => \A i \in 1..Len(connections'[d]) :
                LET c == connections'[d][i]
                IN (EndOpen(conns', d, c) /\ FarEndListens(conns', d, c))
                    => SendsOn(d, c) /\ LastSent(d, c) = SnapshotSent(d)]_vars

\* host A, with client B connected, has gone to the scanning view and its snapshot
\* is on its way to B
HostSnapshotSent ==
    /\ lastOp.op = "RequestScan" /\ lastOp.dev = "A" /\ ~isClient["A"]
    /\ \E i \in 1..Len(connections["A"]) :
        LET out == Outbox(conns, "A", connections["A"][i])
        IN /\ out # <<>>
           /\ out[Len(out)] = SyncState(players["A"], settings["A"], "GAME")


\* a step in which device d takes the frame at the head of its inbox of c, that
\* frame being a HEARTBEAT
TakesHeartbeat(d, c) ==
    /\ c \in SeqRange(connections[d]) /\ EndOpen(conns, d, c)
    /\ Inbox(conns, d, c) # <<>>
    /\ Head(Inbox(conns, d, c)).type = "HEARTBEAT"
    /\ lastOp'.dev = d
    /\ lastOp'.op \in {"Heartbeat", "HEARTBEAT"}
    /\ conns'[c].dialer # NoDevice => Inbox(conns', d, c) = Tail(Inbox(conns, d, c))

\* ---- C23: a HEARTBEAT frame never reaches application logic: the step in which
\* a device receives one hands it to no message handler and leaves the device's
\* role, its players, settings and view, its registry and its peer count as they
\* were, and sends nothing.
HeartbeatFiltered ==
    [][\A d \in Devices, c \in ConnIds :
        TakesHeartbeat(d, c)
        => /\ lastOp'.op = "Heartbeat"
           /\ isClient'[d] = isClient[d]
           /\ players'[d] = players[d] /\ settings'[d] = settings[d]
           /\ view'[d] = view[d]
           /\ connections'[d] = connections[d]
           /\ connectedPeers'[d] = connectedPeers[d]
           /\ \A k \in ConnIds : conns'[k].dialer # NoDevice /\ conns[k].dialer # NoDevice
                => Outbox(conns', d, k) = Outbox(conns, d, k)]_vars

\* client B has just received and dropped a HEARTBEAT of host A, its game state
\* being the one A's snapshot gave it
HeartbeatDropped ==
    /\ lastOp.op = "Heartbeat" /\ lastOp.dev = "B"
    /\ isClient["B"] /\ Len(players["B"]) > 0 /\ connectedPeers["B"] = 1


\* the step in which the "Init P2P" effect of device d runs to its end
StartupStep(d) == ~started[d] /\ started'[d]

\* in that step the preferred identity was rejected: the endpoint has a newly
\* generated one although an identity was stored
PreferredRejected(d) == boot[d].device # NoId /\ epoch'[d] # epoch[d]

\* ---- C24: endpoint identity.  When the "Init P2P" effect of a device has run,
\* the identity it got from init() is the identity of the service's endpoint; it
\* is the stored device identity unless that one was rejected as being in use, and
\* then it is a newly generated identity, different from the rejected one; and when
\* a device identity, a host or a join link was there at the start, the persisted
\* device identity is the identity returned.
EndpointIdentity ==
    [][\A d \in Devices :
        StartupStep(d)
        => /\ peerId'[d] # NoId /\ peerId'[d] = peer'[d]
           /\ (boot[d].device # NoId /\ ~PreferredRejected(d)) => peerId'[d] = boot[d].device
           /\ PreferredRejected(d) => peerId'[d] # boot[d].device
           /\ (boot[d].device # NoId \/ boot[d].host # NoId \/ boot[d].join # NoId)
                => storedDevice'[d] = peerId'[d]]_vars


\* this step registers connection c at device d while the registry of d holds the
\* connection s of the same peer
ReplacesStale(d, c, s) ==
    /\ c \notin SeqRange(connections[d]) /\ c \in SeqRange(connections'[d])
    /\ s \in SeqRange(connections[d])
    /\ conns'[c].dialer # NoDevice
    /\ PeerOf(conns, d, s) = PeerOf(conns', d, c)

\* ---- C25: stale replacement.  When a connection is registered for a peer that has
\* a connection in the registry, the older one is closed at this end and taken out,
\* the new one is appended, and the entries of the other peers stay as they were, in
\* their order: the registry then holds the newer connection as the only one of
\* that peer.
StaleReplacement ==
    [][\A d \in Devices, c, s \in ConnIds :
        ReplacesStale(d, c, s)
        => /\ connections'[d] = Append(SelectSeq(connections[d], LAMBDA x : x # s), c)
           /\ conns'[s].dialer = NoDevice \/ ~EndOpen(conns', d, s)
           /\ \A i \in 1..Len(connections'[d]) :
                PeerOf(conns', d, connections'[d][i]) = PeerOf(conns', d, c)
                => connections'[d][i] = c]_vars

\* an incoming connection of a peer has replaced the stale one in A's registry,
\* which keeps the open connection of another peer in front of it
StaleReplacedBesideOther ==
    /\ lastOp.op = "Incoming" /\ lastOp.dev = "A" /\ lastOp.arg.replaced
    /\ Len(connections["A"]) = 2
    /\ EndOpen(conns, "A", connections["A"][1])
    /\ PeerOf(conns, "A", connections["A"][1]) # PeerOf(conns, "A", connections["A"][2])


\* this step changes the contents of d's registry
RegistryChanged(d) == connections'[d] # connections[d]

\* ---- C26: every change of the contents of a device's registry (a connection
\* inserted by setupConnection, a connection removed on close, by the stale
\* cleanup of _connectToHost or by destroy()) is notified, so that after the step
\* the peer count of the hook is the number of connections in the registry.
RegistryChangeNotified ==
    [][\A d \in Devices :
        RegistryChanged(d) => connectedPeers'[d] = Len(connections'[d])]_vars


\* ---- C27: heartbeat emission.  In every state in which a device has an open
\* connection in its registry, also after destroy() followed by init(), the
\* heartbeat interval of its service is set, so that a HEARTBEAT is sent on every
\* open connection at each period.
HeartbeatRunning ==
    \A d \in Devices :
        (\E i \in 1..Len(connections[d]) : EndOpen(conns, d, connections[d][i]))
        => heartbeatInterval[d]


\* this step sends a HEARTBEAT from device d
SendsHeartbeat(d) ==
    \E c \in ConnIds :
        /\ d \in {conns'[c].dialer, conns'[c].acceptor}
        /\ SendsOn(d, c) /\ LastSent(d, c).type = "HEARTBEAT"

\* this step is the reconnection timer of device d calling handleJoinGame
TimerJoinStep(d) ==
    /\ lastOp' # lastOp /\ lastOp'.dev = d
    /\ lastOp'.op \in {"JoinStart", "JoinAlready"}
    /\ lastOp'.arg.cause = "timer"

\* ---- C28: teardown cancels background activity.  Once destroy() has been called
\* on the service of a device, the device sends no HEARTBEAT frame; and once the
\* hook of a device is unmounted, no timer of the device starts a reconnection
\* attempt.
TeardownQuiet ==
    [][\A d \in Devices :
        /\ destroyed[d] => ~SendsHeartbeat(d)
        /\ ~mounted[d] => ~TimerJoinStep(d)]_vars

\* client B was unmounted while it had lost its host with retries left, and host A
\* has a connection open after it destroyed and recreated its endpoint
TornDownWhileArmed ==
    /\ ~mounted["B"] /\ AutoReconnectArmed("B") /\ ~isJoining["B"]
    /\ destroyed["A"] /\ Len(connections["A"]) > 0


\* this step is device d taking a SYNC_STATE from the head of its inbox of c
TakesSnapshot(d, c) ==
    /\ c \in SeqRange(connections[d]) /\ EndOpen(conns, d, c)
    /\ Inbox(conns, d, c) # <<>>
    /\ Head(Inbox(conns, d, c)).type = "SYNC_STATE"
    /\ lastOp' # lastOp
    /\ lastOp'.dev = d /\ lastOp'.op = "SYNC_STATE" /\ lastOp'.arg.conn = c

\* ---- C29: the scanning view is never replicated.  No SYNC_STATE that a device
\* sends carries the view SCAN: a device whose view is SCAN sends GAME.  A device
\* that receives a SYNC_STATE takes its view when it is GAME or SETUP and keeps its
\* own view otherwise.
ScanNotReplicated ==
    [][\A d \in Devices, c \in ConnIds :
        /\ (/\ d \in {conns'[c].dialer, conns'[c].acceptor}
            /\ SendsOn(d, c) /\ LastSent(d, c).type = "SYNC_STATE")
            => /\ LastSent(d, c).payload.view # "SCAN"
               /\ view'[d] = "SCAN" => LastSent(d, c).payload.view = "GAME"
        /\ TakesSnapshot(d, c)
            => LET v == Head(Inbox(conns, d, c)).payload.view
               IN view'[d] = IF v \in {"GAME", "SETUP"} THEN v ELSE view[d]]_vars

\* host A is scanning, and client B has received the snapshot A sent when it went
\* to the scanning view: B shows the game view
ScanSeenAsGame ==
    /\ view["A"] = "SCAN" /\ ~isClient["A"]
    /\ lastOp.op = "SYNC_STATE" /\ lastOp.dev = "B"
    /\ view["B"] = "GAME"
    /\ \A c \in ConnIds : conns[c].dialer = "B" => conns[c].toD = <<>>


\* a call of connect() by device d has not settled: it awaits the endpoint that its
\* init() created, or its dial is pending
ConnectPending(d) ==
    \/ \E i \in 1..Len(opening[d]) : opening[d][i].kind \in {"connect", "lost-connect"}
    \/ \E c \in ConnIds : conns[c].dialer = d /\ conns[c].dSt = "pending"

\* ---- C30: bounded connection establishment.  Every call of connect(hostId)
\* settles: whenever a call of a device is pending, a state follows in which no
\* call of the device is pending, also when the call first has to create the
\* endpoint with init().
ConnectSettles == \A d \in Devices : ConnectPending(d) ~> ~ConnectPending(d)


\* the kinds that handleP2PMessage has a branch for
HandledKinds ==
    {"SYNC_STATE", "REQUEST_SAVE_ROUND", "REQUEST_RESET", "REQUEST_SETTINGS_UPDATE",
     "REQUEST_ADD_PLAYERS"}

\* this step is device d taking, from the head of its inbox of c, a frame of a kind
\* that handleP2PMessage has no branch for
TakesUnhandled(d, c) ==
    /\ c \in SeqRange(connections[d]) /\ EndOpen(conns, d, c)
    /\ Inbox(conns, d, c) # <<>>
    /\ Head(Inbox(conns, d, c)).type \notin HandledKinds \cup {"HEARTBEAT"}
    /\ lastOp' # lastOp /\ lastOp'.dev = d
    /\ lastOp'.op = Head(Inbox(conns, d, c)).type /\ lastOp'.arg.conn = c

\* ---- C31: a received message of a kind the router does not handle is dropped: the
\* role, the players, the settings, the view, the registry and the peer count of
\* the receiver stay as they were, the receiver sends nothing, and the frames behind
\* it in the inbox stay there to be dispatched.
UnhandledDropped ==
    [][\A d \in Devices, c \in ConnIds :
        TakesUnhandled(d, c)
        => /\ isClient'[d] = isClient[d]
           /\ players'[d] = players[d] /\ settings'[d] = settings[d]
           /\ view'[d] = view[d]
           /\ connections'[d] = connections[d]
           /\ connectedPeers'[d] = connectedPeers[d]
           /\ Inbox(conns', d, c) = Tail(Inbox(conns, d, c))
           /\ Outbox(conns', d, c) = Outbox(conns, d, c)]_vars

\* client B has dropped a GAME_ENDED of host A and has then taken the snapshot that
\* came behind it
SnapshotAfterUnhandled ==
    /\ lastOp.op = "SYNC_STATE" /\ lastOp.dev = "B"
    /\ endedBy["B"] # NoId
    /\ Len(players["B"]) > 0


\* this step is host d saving a round for the player id p, which its players list
\* does not hold: at the user's hand, or on a REQUEST_SAVE_ROUND taken from a client
SavesForAbsent(d, p) ==
    /\ ~isClient[d] /\ AbsentPlayer(players[d], p)
    /\ lastOp' # lastOp /\ lastOp'.dev = d
    /\ \/ lastOp'.op = "SaveRound" /\ lastOp'.arg.absent
       \/ \E c \in SeqRange(connections[d]) :
            /\ EndOpen(conns, d, c) /\ Inbox(conns, d, c) # <<>>
            /\ Head(Inbox(conns, d, c)) \in {RequestSaveRound(p, r) : r \in Rounds}
            /\ lastOp'.op = "REQUEST_SAVE_ROUND" /\ lastOp'.arg.conn = c

\* ---- C32: a round-save for a player id that the host's players list does not hold
\* is a no-op: the players list, with every player's rounds, is unchanged, and so
\* are the role, the settings, the view and the registry of the host.
AbsentSaveNoOp ==
    [][\A d \in Devices, p \in PlayerIds :
        SavesForAbsent(d, p)
        => /\ players'[d] = players[d]
           /\ isClient'[d] = isClient[d] /\ settings'[d] = settings[d]
           /\ view'[d] = view[d]
           /\ connections'[d] = connections[d]]_vars

\* host A has taken a client's REQUEST_SAVE_ROUND for a player id that its list,
\* which holds one player, does not have
AbsentSaveReceived ==
    /\ lastOp.op = "REQUEST_SAVE_ROUND" /\ lastOp.dev = "A" /\ lastOp.arg.absent
    /\ ~isClient["A"] /\ Len(players["A"]) = 1


\* this step is host d taking a REQUEST_RESET from the head of its inbox of c
TakesReset(d, c) ==
    /\ ~isClient[d]
    /\ c \in SeqRange(connections[d]) /\ EndOpen(conns, d, c)
    /\ Inbox(conns, d, c) # <<>>
    /\ Head(Inbox(conns, d, c)).type = "REQUEST_RESET"
    /\ lastOp' # lastOp /\ lastOp'.dev = d
    /\ lastOp'.op = "REQUEST_RESET" /\ lastOp'.arg.conn = c

\* ---- C33: when the host handles a reset request, every player's rounds become
\* empty while the players (ids, names, order), the settings and the host's
\* connections are kept, and the host broadcasts the resulting state on its open
\* connections.
ResetKeepsPlayers ==
    [][\A d \in Devices, c \in ConnIds :
        TakesReset(d, c)
        => /\ players'[d] = ResetRounds(players[d])
           /\ settings'[d] = settings[d]
           /\ connections'[d] = connections[d]
           /\ \A i \in 1..Len(connections'[d]) :
                LET k == connections'[d][i]
                IN (EndOpen(conns', d, k) /\ FarEndListens(conns', d, k))
                    => SendsOn(d, k) /\ LastSent(d, k) = SnapshotSent(d)]_vars


\* ---- C34: the retry counter is bounded: in every reachable state
\* 0 <= retryCount <= MAX_RETRIES on every device, whichever of the timer,
\* the startup reconnect and sendToHostAction started the failing attempts.
RetryCountBounded == \A d \in Devices : retryCount[d] \in 0..MAX_RETRIES


\* ---- C35: host-only autosave: a step after which a device is in CLIENT role
\* (the role its autosave effects see) leaves that device's persisted snapshot
\* of players and of settings as it was.
HostOnlyAutosave ==
    [][\A d \in Devices :
          isClient'[d] => /\ storedPlayers'[d] = storedPlayers[d]
                          /\ storedSettings'[d] = storedSettings[d]]_vars

\* a client that holds synchronised players and settings its own snapshot lacks
ClientAheadOfSnapshot ==
    /\ isClient["B"] /\ lastOp.op = "SYNC_STATE" /\ lastOp.dev = "B"
    /\ players["B"] # storedPlayers["B"]
    /\ settings["B"] # storedSettings["B"]


\* does device d hold connection c in its registry, having dialled it
DialedRegistered(d, c) == c \in SeqRange(connections[d]) /\ conns[c].dialer = d

\* ---- C36: at most one writer per session: a device that holds a registered
\* connection which it dialled itself through a join is in CLIENT role, under
\* every interleaving of join, cancel, timeout and connection-open events.
DialerIsClient ==
    \A d \in Devices, c \in ConnIds : DialedRegistered(d, c) => isClient[d]


\* ---- C37: a device in CLIENT role with no join in progress has a host
\* identity persisted (snapscore_host_id is set).
ClientHasStoredHost ==
    \A d \in Devices : (isClient[d] /\ ~isJoining[d]) => storedHost[d] # NoId


\* Device C joins B while B hosts, then B joins host A: B is a client that also
\* holds a connection from C, and its user starts a game.
NextRelay ==
    \/ Cardinality(Live) < MaxLive /\ UserJoin("C", <<"B", 0>>)
    \/ Cardinality(Live) < MaxLive /\ UserJoin("B", <<"A", 0>>)
    \/ \E c \in ConnIds : DialerOpen(c)
    \/ \E c \in ConnIds : AcceptorOpen(c)
    \/ \E d \in Devices, c \in ConnIds : Deliver(d, c)
    \/ \E np \in NewPlayerLists : nOps < MaxOps /\ UserStartGame("B", np)

SpecRelay == Init /\ [][NextRelay]_vars

\* the kinds of frame a client sends to its host
RequestKinds ==
    {"REQUEST_SAVE_ROUND", "REQUEST_RESET", "REQUEST_SETTINGS_UPDATE", "REQUEST_ADD_PLAYERS"}

\* ---- C38: a mutation request that a client with a persisted host identity sends
\* goes out only on the connection to that host, never on a connection to another
\* peer.
RequestOnlyToHost ==
    [][\A d \in Devices, c \in ConnIds :
          (/\ isClient[d] /\ storedHost[d] # NoId
           /\ SendsOn(d, c) /\ LastSent(d, c).type \in RequestKinds)
              => PeerOf(conns', d, c) = storedHost[d]]_vars


\* the silent connection attempts of device d to host h that are in flight and
\* were not cancelled: dials that are pending, and connect() calls that wait for
\* the endpoint
SilentAttempts(d, h) ==
    Cardinality({c \in ConnIds : /\ conns[c].dialer = d /\ conns[c].dSt = "pending"
                                 /\ conns[c].target = h
                                 /\ conns[c].silent /\ ~conns[c].cut})
    + Cardinality({i \in 1..Len(opening[d]) : /\ opening[d][i].kind = "connect"
                                              /\ opening[d][i].target = h
                                              /\ opening[d][i].silent
                                              /\ ~opening[d][i].cut})

\* ---- C39: at most one connection attempt to the host is in flight on one
\* device: the attempts of the Auto-Reconnect timer, of the startup reconnect and
\* of sendToHostAction never run p2p.connect to the same host at the same time.
OneAttemptInFlight ==
    \A d \in Devices : SilentAttempts(d, storedHost[d]) <= 1


\* Device B joins host A and its dials time out, fail or open; a dial that timed
\* out can still open afterwards.
NextLate ==
    \/ Cardinality(Live) < MaxLive /\ UserJoin("B", <<"A", 0>>)
    \/ Cardinality(Live) < MaxLive /\ AutoReconnect("B")
    \/ \E c \in ConnIds : DialerOpen(c)
    \/ \E c \in ConnIds : DialerLateOpen(c)
    \/ \E c \in ConnIds : AcceptorOpen(c)
    \/ \E c \in ConnIds, k \in {"timeout", "error"} : DialFailed(c, k)
    \/ \E d \in Players, c \in ConnIds : ConnClosed(d, c)
    \/ \E d \in Players, c \in ConnIds : Deliver(d, c)
    \/ \E np \in NewPlayerLists : nOps < MaxOps /\ UserStartGame("A", np)

SpecLate == Init /\ [][NextLate]_vars

\* this step is the opening of connection c at its dialer, after the connect
\* timeout rejected the attempt
OpensAfterTimeout(c) ==
    /\ conns[c].dSt = "abandoned"
    /\ conns'[c].dialer = conns[c].dialer
    /\ conns'[c].dSt \in {"open", "unheard"}

\* ---- C40: an attempt that the connect timeout rejected never registers a
\* connection afterwards: when its connection opens after the timeout, the
\* dialer's registry and the peer count its hook observes stay as they were.
LateOpenNotRegistered ==
    [][\A c \in ConnIds :
          OpensAfterTimeout(c)
              => /\ connections'[conns[c].dialer] = connections[conns[c].dialer]
                 /\ connectedPeers'[conns[c].dialer] = connectedPeers[conns[c].dialer]]_vars

\* a dial of B to A opened at both ends after its timeout, and B holds nothing
OpenedLateUnregistered ==
    \E c \in ConnIds :
        /\ conns[c].dialer = "B" /\ conns[c].dSt = "unheard" /\ conns[c].aSt = "open"
        /\ lastOp.op = "LateOpen" /\ lastOp.dev = "B"
        /\ connections["B"] = <<>> /\ connectedPeers["B"] = 0

====
